---- MODULE Spec2Model ----
(***************************************************************************)
(* A model of StockCheck: the day-trading backtester                       *)
(* (src/dayTrading/dayTrading.py: Position, Portfolio and Simulation), its *)
(* indicators (src/dayTrading/indicators.py) and the parameter sweep       *)
(* (src/strategy_tester.py: Portfolio, StrategyTester, permutate_mp).      *)
(*                                                                         *)
(* Python floats are modelled as exact rationals <<n, d>> (d > 0, lowest   *)
(* terms), so float rounding is not part of the model.  Prices are        *)
(* positive, as the close prices of an instrument are.                     *)
(***************************************************************************)
EXTENDS Integers, Sequences, FiniteSets

VARIABLES
    sp,         \* StaticParams: initial_cash, min_cash, leverage, trade_cooldown
    dp,         \* DynamicParams: stop_loss_pct, take_profit_pct, investment_pct
    cash,       \* Portfolio.cash
    positions,  \* Portfolio.positions, the list in its order
    cooldown,   \* Simulation.cooldown
    i,          \* Simulation.run, StrategyTester.simulate: the index i of the loop
    steps,      \* the number of calls the client of a Portfolio has made
    opened,     \* the number of Position objects constructed so far (object identity)
    realized,   \* history: the sum of the values try_close returned to tick
    closed,     \* history: the positions tick removed, in the order of removal
    callTicks,  \* history: the ticks of run on which open_position was called
    last,       \* history: the last operation, its arguments and the state before it
    openTick,   \* history: for each Position of a run, the tick of run that opened it
    data,       \* StaticParams.data["close"], the close prices of the series
    indicators, \* DynamicParams.indicators, the configured indicator variant
    signals,    \* Simulation.indicators, the buy and sell columns indicators.get returned
    simulator,  \* strategy_tester: the StrategyTester of simulate_p
    portfolio,  \* strategy_tester: the Portfolio of simulate_p
    params,     \* strategy_tester: the axes permutate_mp is called with
    pool,       \* strategy_tester: the mp.Pool of permutate_mp and its tasks
    results,    \* strategy_tester: the results list of permutate_mp
    pc,         \* strategy_tester: the position of the main process
    shown,      \* strategy_tester: what show_top_n printed and handed to draw_best
    validate_results \* strategy_tester: the list validate builds and returns

dayVars == <<sp, dp, cash, positions, cooldown, i, steps, opened, realized, closed, callTicks, last,
            openTick>>
seriesVars == <<data, indicators, signals>>
sweepVars == <<simulator, portfolio, params, pool, results, pc, shown, validate_results>>
vars == <<dayVars, seriesVars, sweepVars>>

(***************************************************************************)
(* Bounds of the model.                                                    *)
(***************************************************************************)
MaxSteps == 4       \* calls a client makes on one Portfolio
MaxTicks == 4       \* length of the price series given to Simulation.run
MaxCooldown == 2    \* largest trade_cooldown

(***************************************************************************)
(* Exact arithmetic for Python's floats.                                   *)
(***************************************************************************)
Abs(x) == IF x < 0 THEN -x ELSE x

RECURSIVE GCD(_, _)
GCD(a, b) == IF b = 0 THEN a ELSE GCD(b, a % b)

Rat(n, d) ==
    LET s == IF d < 0 THEN -1 ELSE 1
        g == GCD(Abs(n), Abs(d))
    IN  <<(s * n) \div g, (s * d) \div g>>

Float(n) == <<n, 1>>
Zero == <<0, 1>>
One == <<1, 1>>
\* Sums over the least common denominator and products with the common factors
\* taken out first, which keeps the integers of the computation small.
RAdd(a, b) ==
    LET g == GCD(a[2], b[2])
    IN  Rat(a[1] * (b[2] \div g) + b[1] * (a[2] \div g), (a[2] \div g) * b[2])
RNeg(a) == <<-a[1], a[2]>>
RSub(a, b) == RAdd(a, RNeg(b))
RMul(a, b) ==
    LET g == GCD(Abs(a[1]), b[2])
        h == GCD(Abs(b[1]), a[2])
    IN  Rat((a[1] \div g) * (b[1] \div h), (a[2] \div h) * (b[2] \div g))
RDiv(a, b) == RMul(a, IF b[1] < 0 THEN <<-b[2], -b[1]>> ELSE <<b[2], b[1]>>)
RLt(a, b) == a[1] * b[2] < b[1] * a[2]
RLe(a, b) == a[1] * b[2] <= b[1] * a[2]

\* Python's None, as a value no float is equal to.
None == <<0, 0>>

LONG == TRUE
SHORT == FALSE

(***************************************************************************)
(* Position                                                                *)
(***************************************************************************)
\* A short position whose bounds are those of a long one.
Position_same_bounds(id, is_long, margin, open_price, stop_loss_pct, take_profit_pct, leverage) ==
    [ id |-> id,
      is_long |-> is_long,
      open_price |-> open_price,
      size |-> RMul(margin, Float(leverage)),
      initial_margin |-> margin,
      upper_bound_price |-> RMul(open_price, RAdd(One, take_profit_pct)),
      lower_bound_price |-> RMul(open_price, RSub(One, stop_loss_pct)) ]

\* Position.__init__; id stands for the identity of the new object.
Position(id, is_long, margin, open_price, stop_loss_pct, take_profit_pct, leverage) ==
    [ id |-> id,
      is_long |-> is_long,
      open_price |-> open_price,
      size |-> RMul(margin, Float(leverage)),
      initial_margin |-> margin,
      upper_bound_price |-> RMul(open_price, RAdd(One, IF is_long THEN take_profit_pct ELSE stop_loss_pct)),
      lower_bound_price |-> RMul(open_price, RSub(One, IF is_long THEN stop_loss_pct ELSE take_profit_pct)) ]

\* try_close with the bounds themselves inside the open range.
try_close_inclusive(p, price) ==
    IF RLe(p.lower_bound_price, price) /\ RLe(price, p.upper_bound_price)
    THEN None
    ELSE LET price_change_pct == RDiv(RSub(price, p.open_price), p.open_price)
             profit == RMul(RMul(p.size, price_change_pct), Float(IF p.is_long THEN 1 ELSE -1))
         IN  RAdd(p.initial_margin, profit)

\* try_close with the profit of a long position for a short one too.
try_close_unsigned(p, price) ==
    IF RLt(p.lower_bound_price, price) /\ RLt(price, p.upper_bound_price)
    THEN None
    ELSE LET price_change_pct == RDiv(RSub(price, p.open_price), p.open_price)
             profit == RMul(p.size, price_change_pct)
         IN  RAdd(p.initial_margin, profit)

\* try_close returning at least nothing: a loss beyond the margin is cut at 0.
try_close_clamped(p, price) ==
    IF RLt(p.lower_bound_price, price) /\ RLt(price, p.upper_bound_price)
    THEN None
    ELSE LET price_change_pct == RDiv(RSub(price, p.open_price), p.open_price)
             profit == RMul(RMul(p.size, price_change_pct), Float(IF p.is_long THEN 1 ELSE -1))
         IN  IF RLt(RAdd(p.initial_margin, profit), Zero) THEN Zero
             ELSE RAdd(p.initial_margin, profit)

\* Position.try_close: None, or the cash the closed position returns.
try_close(p, price) ==
    IF RLt(p.lower_bound_price, price) /\ RLt(price, p.upper_bound_price)
    THEN None
    ELSE LET price_change_pct == RDiv(RSub(price, p.open_price), p.open_price)
             profit == RMul(RMul(p.size, price_change_pct), Float(IF p.is_long THEN 1 ELSE -1))
         IN  RAdd(p.initial_margin, profit)

(***************************************************************************)
(* Portfolio                                                               *)
(***************************************************************************)
\* list.remove(x): the list without the first element equal to x.
RECURSIVE list_remove(_, _)
list_remove(ps, x) ==
    IF ps = <<>> THEN <<>>
    ELSE IF Head(ps) = x THEN Tail(ps)
    ELSE <<Head(ps)>> \o list_remove(Tail(ps), x)

\* The for loop of tick removing a closed position and leaving its value out of cash.
RECURSIVE tick_loop_no_credit(_, _, _, _, _)
tick_loop_no_credit(ps, c, gone, idx, price) ==
    IF idx > Len(ps)
    THEN [cash |-> c, positions |-> ps, closed |-> gone]
    ELSE LET p == ps[idx]
             close_cash == try_close(p, price)
         IN  IF close_cash # None
             THEN tick_loop_no_credit(list_remove(ps, p), c,
                                      Append(gone, [position |-> p, value |-> close_cash, price |-> price]), idx + 1, price)
             ELSE tick_loop_no_credit(ps, c, gone, idx + 1, price)

\* The for loop of tick crediting a closed position and leaving it in the list.
RECURSIVE tick_loop_keep(_, _, _, _, _)
tick_loop_keep(ps, c, gone, idx, price) ==
    IF idx > Len(ps)
    THEN [cash |-> c, positions |-> ps, closed |-> gone]
    ELSE LET p == ps[idx]
             close_cash == try_close(p, price)
         IN  IF close_cash # None
             THEN tick_loop_keep(ps, RAdd(c, close_cash),
                                 Append(gone, [position |-> p, value |-> close_cash, price |-> price]), idx + 1, price)
             ELSE tick_loop_keep(ps, c, gone, idx + 1, price)

\* The for loop of Portfolio.tick.  Python's list iterator keeps an index into the
\* list itself: it yields ps[idx] and moves on to idx + 1 of the list as it is then,
\* so after remove(p) the element that slid into p's place is not visited.
\* gone collects the positions removed, the value each returned and the price.
RECURSIVE tick_loop(_, _, _, _, _)
tick_loop(ps, c, gone, idx, price) ==
    IF idx > Len(ps)
    THEN [cash |-> c, positions |-> ps, closed |-> gone]
    ELSE LET p == ps[idx]
             close_cash == try_close(p, price)
         IN  IF close_cash # None
             THEN tick_loop(list_remove(ps, p), RAdd(c, close_cash),
                            Append(gone, [position |-> p, value |-> close_cash, price |-> price]), idx + 1, price)
             ELSE tick_loop(ps, c, gone, idx + 1, price)

\* Portfolio.tick as a function of the portfolio: the cash and the list after it.
tick(ps, c, price) == tick_loop(ps, c, <<>>, 1, price)

\* open_position without the min_cash gate.
open_position_no_gate(ps, c, id, is_long, open_price) ==
    LET investment_cash == RMul(c, dp.investment_pct)
        p == Position(id, is_long, investment_cash, open_price,
                      dp.stop_loss_pct, dp.take_profit_pct, sp.leverage)
    IN  [cash |-> RSub(c, investment_cash), positions |-> Append(ps, p)]

\* open_position taking the margin out of cash before the gate is tested.
open_position_pay_first(ps, c, id, is_long, open_price) ==
    LET investment_cash == RMul(c, dp.investment_pct)
        p == Position(id, is_long, investment_cash, open_price,
                      dp.stop_loss_pct, dp.take_profit_pct, sp.leverage)
    IN  IF RLe(c, sp.min_cash)
        THEN [cash |-> RSub(c, investment_cash), positions |-> ps]
        ELSE [cash |-> RSub(c, investment_cash), positions |-> Append(ps, p)]

\* open_position keeping the margin in cash.
open_position_no_deduct(ps, c, id, is_long, open_price) ==
    IF RLe(c, sp.min_cash)
    THEN [cash |-> c, positions |-> ps]
    ELSE LET investment_cash == RMul(c, dp.investment_pct)
             p == Position(id, is_long, investment_cash, open_price,
                           dp.stop_loss_pct, dp.take_profit_pct, sp.leverage)
         IN  [cash |-> c, positions |-> Append(ps, p)]

\* open_position staking a fraction of the initial cash, whatever cash is left.
open_position_fixed_stake(ps, c, id, is_long, open_price) ==
    IF RLe(c, sp.min_cash)
    THEN [cash |-> c, positions |-> ps]
    ELSE LET investment_cash == RMul(sp.initial_cash, dp.investment_pct)
             p == Position(id, is_long, investment_cash, open_price,
                           dp.stop_loss_pct, dp.take_profit_pct, sp.leverage)
         IN  [cash |-> RSub(c, investment_cash), positions |-> Append(ps, p)]

\* open_position recording the leveraged exposure as the margin of the position.
open_position_leveraged_margin(ps, c, id, is_long, open_price) ==
    IF RLe(c, sp.min_cash)
    THEN [cash |-> c, positions |-> ps]
    ELSE LET investment_cash == RMul(c, dp.investment_pct)
             p == Position(id, is_long, RMul(investment_cash, Float(sp.leverage)), open_price,
                           dp.stop_loss_pct, dp.take_profit_pct, sp.leverage)
         IN  [cash |-> RSub(c, investment_cash), positions |-> Append(ps, p)]

\* Portfolio.open_position as a function of the portfolio.
open_position(ps, c, id, is_long, open_price) ==
    IF RLe(c, sp.min_cash)
    THEN [cash |-> c, positions |-> ps]
    ELSE LET investment_cash == RMul(c, dp.investment_pct)
             p == Position(id, is_long, investment_cash, open_price,
                           dp.stop_loss_pct, dp.take_profit_pct, sp.leverage)
         IN  [cash |-> RSub(c, investment_cash), positions |-> Append(ps, p)]

RECURSIVE SumValues(_)
SumValues(gone) ==
    IF gone = <<>> THEN Zero ELSE RAdd(Head(gone).value, SumValues(Tail(gone)))

(***************************************************************************)
(* The configurations and the prices of the model.                         *)
(***************************************************************************)
Prices == {Float(50), Float(100), Float(200)}
InitialCashes == {Float(1000)}
MinCashes == {Float(100)}
Leverages == {1, 5}
StopLossPcts == {Rat(1, 20)}
TakeProfitPcts == {Rat(1, 10)}
InvestmentPcts == {Rat(1, 2), One}
\* The code checks no parameter: a fraction of 0 is accepted as any other.
AcceptedStopLossPcts == StopLossPcts \cup {Zero}
AcceptedTakeProfitPcts == TakeProfitPcts \cup {Zero}
AcceptedInvestmentPcts == InvestmentPcts \cup {Zero}

StaticParams(cooldowns) ==
    [initial_cash : InitialCashes, min_cash : MinCashes, leverage : Leverages,
     trade_cooldown : cooldowns]

DynamicParams ==
    [stop_loss_pct : StopLossPcts, take_profit_pct : TakeProfitPcts,
     investment_pct : InvestmentPcts]

AcceptedDynamicParams ==
    [stop_loss_pct : AcceptedStopLossPcts, take_profit_pct : AcceptedTakeProfitPcts,
     investment_pct : AcceptedInvestmentPcts]

NoCall ==
    [op |-> "none", price |-> Zero, is_long |-> FALSE, buy |-> FALSE, sell |-> FALSE,
     calls |-> 0, result |-> None, pre_cash |-> Zero, pre_positions |-> <<>>]

(***************************************************************************)
(* Spec: a Portfolio and the calls a client makes on it, in any order,     *)
(* under positive fractions.  AcceptedSpec: the same under every           *)
(* configuration the code accepts.                                         *)
(***************************************************************************)
\* No series is loaded and no indicator is configured: the Portfolio and the
\* Position are driven directly.
NoSeries ==
    /\ data = <<>>
    /\ indicators = [kind |-> "none"]
    /\ signals = <<>>

\* No sweep is running: strategy_tester is not in use.
NoSweep ==
    /\ simulator = [kind |-> "none"]
    /\ portfolio = [kind |-> "none"]
    /\ params = <<>>
    /\ pool = [kind |-> "none"]
    /\ results = <<>>
    /\ pc = "none"
    /\ shown = [kind |-> "none"]
    /\ validate_results = <<>>

\* Portfolio.__init__
Portfolio_init ==
    /\ cash = sp.initial_cash
    /\ positions = <<>>
    /\ cooldown = 0
    /\ i = 0
    /\ steps = 0
    /\ opened = 0
    /\ realized = Zero
    /\ closed = <<>>
    /\ callTicks = <<>>
    /\ openTick = <<>>
    /\ last = NoCall

Init ==
    /\ sp \in StaticParams({0})
    /\ dp \in DynamicParams
    /\ Portfolio_init
    /\ NoSeries
    /\ NoSweep

AcceptedInit ==
    /\ sp \in StaticParams({0})
    /\ dp \in AcceptedDynamicParams
    /\ Portfolio_init
    /\ NoSeries
    /\ NoSweep

\* A call of Portfolio.tick(price).
Portfolio_tick(price) ==
    LET r == tick(positions, cash, price)
    IN  /\ steps < MaxSteps
        /\ cash' = r.cash
        /\ positions' = r.positions
        /\ realized' = RAdd(realized, SumValues(r.closed))
        /\ closed' = closed \o r.closed
        /\ steps' = steps + 1
        /\ last' = [NoCall EXCEPT !.op = "tick", !.price = price,
                                  !.pre_cash = cash, !.pre_positions = positions]
        /\ UNCHANGED <<sweepVars, seriesVars, sp, dp, cooldown, i, opened, callTicks, openTick>>

\* A call of Portfolio.open_position(is_long, open_price).
Portfolio_open_position(is_long, open_price) ==
    LET r == open_position(positions, cash, opened + 1, is_long, open_price)
    IN  /\ steps < MaxSteps
        /\ cash' = r.cash
        /\ positions' = r.positions
        /\ opened' = IF r.positions = positions THEN opened ELSE opened + 1
        /\ steps' = steps + 1
        /\ last' = [NoCall EXCEPT !.op = "open_position", !.price = open_price,
                                  !.is_long = is_long,
                                  !.pre_cash = cash, !.pre_positions = positions]
        /\ UNCHANGED <<sweepVars, seriesVars, sp, dp, cooldown, i, realized, closed, callTicks, openTick>>

Next ==
    \/ \E price \in Prices : Portfolio_tick(price)
    \/ \E is_long \in BOOLEAN, price \in Prices : Portfolio_open_position(is_long, price)

Spec == Init /\ [][Next]_vars

AcceptedSpec == AcceptedInit /\ [][Next]_vars

(***************************************************************************)
(* PosSpec: one Position built as the tests of dayTrading.py build it, and *)
(* the calls of try_close on it.                                           *)
(***************************************************************************)
TestMargins == {Float(1000)}
TestOpenPrices == {Float(100), Float(200)}
TestPrices ==
    {Float(89), Float(90), Float(94), Float(95), Float(100),
     Float(105), Float(106), Float(110), Float(111)}

PosInit ==
    /\ sp \in StaticParams({0})
    /\ dp \in [stop_loss_pct : AcceptedStopLossPcts, take_profit_pct : AcceptedTakeProfitPcts,
               investment_pct : {One}]
    /\ cash = Zero
    /\ \E is_long \in BOOLEAN, margin \in TestMargins, open_price \in TestOpenPrices :
          positions = <<Position(1, is_long, margin, open_price,
                                 dp.stop_loss_pct, dp.take_profit_pct, sp.leverage)>>
    /\ cooldown = 0
    /\ i = 0
    /\ steps = 0
    /\ opened = 1
    /\ realized = Zero
    /\ closed = <<>>
    /\ callTicks = <<>>
    /\ openTick = <<>>
    /\ last = NoCall
    /\ NoSeries
    /\ NoSweep

\* A call of positions[1].try_close(price): it assigns to no field of the position.
Position_try_close(price) ==
    /\ last' = [NoCall EXCEPT !.op = "try_close", !.price = price,
                              !.result = try_close(positions[1], price),
                              !.pre_cash = cash, !.pre_positions = positions]
    /\ UNCHANGED <<sweepVars, seriesVars, sp, dp, cash, positions, cooldown, i, steps, opened, realized,
                   closed, callTicks, openTick>>

PosNext == \E price \in TestPrices : Position_try_close(price)

PosSpec == PosInit /\ [][PosNext]_vars

RECURSIVE SumMargins(_)
SumMargins(ps) ==
    IF ps = <<>> THEN Zero ELSE RAdd(Head(ps).initial_margin, SumMargins(Tail(ps)))

(***************************************************************************)
(* SimSpec: Simulation.run over a price series of at most MaxTicks closes, *)
(* with the signals of the indicator left open.  The configuration is the  *)
(* one dayTrading.py runs, with the cooldown varied.                       *)
(***************************************************************************)
main_initial_cash == 1000
main_min_cash == 100
main_leverage == 5

\* Simulation.__init__
SimInit ==
    /\ sp \in [initial_cash : {Float(main_initial_cash)}, min_cash : {Float(main_min_cash)},
               leverage : {main_leverage}, trade_cooldown : 0 .. MaxCooldown]
    /\ dp = [stop_loss_pct |-> Rat(1, 20), take_profit_pct |-> Rat(1, 10),
             investment_pct |-> Rat(1, 2)]
    /\ Portfolio_init
    /\ NoSeries
    /\ NoSweep

\* The cooldown never counted down: every tick inspects the signals.
run_cooldown_never(cd) == 0

\* The cooldown reset to one tick more than trade_cooldown.
run_cooldown_late(cd) == IF cd = 0 THEN sp.trade_cooldown + 1 ELSE cd - 1

\* The cooldown after a tick of run on which it was cd.
run_cooldown(cd) == IF cd = 0 THEN sp.trade_cooldown ELSE cd - 1

\* One iteration of the loop of Simulation.run, on tick i of the series.
Simulation_run_step(price, buy, sell) ==
    LET t == tick(positions, cash, price)
        inspect == cooldown = 0
        a == IF inspect /\ buy
             THEN open_position(t.positions, t.cash, opened + 1, LONG, price)
             ELSE [cash |-> t.cash, positions |-> t.positions]
        b == IF inspect /\ sell
             THEN open_position(a.positions, a.cash, opened + 1 + Len(a.positions) - Len(t.positions),
                                SHORT, price)
             ELSE a
        calls == IF inspect THEN (IF buy THEN 1 ELSE 0) + (IF sell THEN 1 ELSE 0) ELSE 0
    IN  /\ i < MaxTicks
        /\ last.op # "return"
        /\ cash' = b.cash
        /\ positions' = b.positions
        /\ opened' = opened + Len(b.positions) - Len(t.positions)
        /\ realized' = RAdd(realized, SumValues(t.closed))
        /\ closed' = closed \o t.closed
        /\ cooldown' = run_cooldown(cooldown)
        /\ callTicks' = IF calls > 0 THEN Append(callTicks, i) ELSE callTicks
        /\ openTick' = openTick \o [k \in 1 .. Len(b.positions) - Len(t.positions) |-> i]
        /\ i' = i + 1
        /\ last' = [NoCall EXCEPT !.op = "run", !.price = price, !.buy = buy, !.sell = sell,
                                  !.calls = calls,
                                  !.pre_cash = cash, !.pre_positions = positions]
        /\ UNCHANGED <<sweepVars, seriesVars, sp, dp, steps>>

\* run returning the cash and the margins of the positions still open.
run_result_with_margins(c, ps) == RAdd(c, SumMargins(ps))

\* The value Simulation.run returns: self.portfolio.cash.
run_result(c, ps) == c

\* The end of the series: the loop of run is over after tick i - 1 and run returns.
Simulation_run_return ==
    /\ last.op # "return"
    /\ last' = [NoCall EXCEPT !.op = "return", !.result = run_result(cash, positions),
                              !.pre_cash = cash, !.pre_positions = positions]
    /\ UNCHANGED <<sweepVars, seriesVars, sp, dp, cash, positions, cooldown, i, steps, opened, realized, closed,
                   callTicks, openTick>>

SimNext ==
    \/ \E price \in Prices, buy \in BOOLEAN, sell \in BOOLEAN : Simulation_run_step(price, buy, sell)
    \/ Simulation_run_return

SimSpec == SimInit /\ [][SimNext]_vars

(***************************************************************************)
(* The indicator variants (src/dayTrading/indicators.py).  A pandas Series *)
(* is a sequence; position k of the sequence is index k - 1 of the Series. *)
(* A float is a rational, NaN or +inf.  The standard deviation of a window *)
(* is kept as its variance and compared through squares.                   *)
(***************************************************************************)
NaN == <<0, 0>>
Inf == <<1, 0>>

\* a < b on floats that are finite or NaN: False when an operand is NaN.
FLt(a, b) == a # NaN /\ b # NaN /\ RLt(a, b)

\* Division in which a division by zero is always NaN.
FDiv_nan(a, b) == IF a = NaN \/ b = NaN \/ b = Zero THEN NaN ELSE RDiv(a, b)

\* a / b on floats with a >= 0 and b >= 0, each finite or NaN: x / 0 is +inf for
\* x > 0 and 0 / 0 is NaN.
FDiv(a, b) ==
    IF a = NaN \/ b = NaN THEN NaN
    ELSE IF b = Zero THEN (IF a = Zero THEN NaN ELSE Inf)
    ELSE RDiv(a, b)

RECURSIVE SeqSum(_)
SeqSum(s) == IF s = <<>> THEN Zero ELSE RAdd(Head(s), SeqSum(Tail(s)))

RECURSIVE SeqMin(_)
SeqMin(s) ==
    IF Len(s) = 1 THEN s[1]
    ELSE LET m == SeqMin(Tail(s)) IN IF RLt(m, s[1]) THEN m ELSE s[1]

RECURSIVE SeqMax(_)
SeqMax(s) ==
    IF Len(s) = 1 THEN s[1]
    ELSE LET m == SeqMax(Tail(s)) IN IF RLt(s[1], m) THEN m ELSE s[1]

\* The window of Series.rolling(window) that ends at position k.
Window(s, window, k) == SubSeq(s, k - window + 1, k)

\* rolling(window).min() over the window that ends before position k.
rolling_min_before(s, window) ==
    [k \in 1 .. Len(s) |-> IF k <= window THEN NaN ELSE SeqMin(Window(s, window, k - 1))]

\* Series.rolling(window).min(): NaN until the window is full.
rolling_min(s, window) ==
    [k \in 1 .. Len(s) |-> IF k < window THEN NaN ELSE SeqMin(Window(s, window, k))]

\* Series.rolling(window).max()
rolling_max(s, window) ==
    [k \in 1 .. Len(s) |-> IF k < window THEN NaN ELSE SeqMax(Window(s, window, k))]

\* Series.rolling(window).mean()
rolling_mean(s, window) ==
    [k \in 1 .. Len(s) |->
        IF k < window THEN NaN ELSE RDiv(SeqSum(Window(s, window, k)), Float(window))]

\* The square of Series.rolling(window).std(): the sample variance (ddof = 1) of
\* the window, NaN until the window is full and for a window of one value.
rolling_var(s, window) ==
    [k \in 1 .. Len(s) |->
        IF k < window \/ window = 1 THEN NaN
        ELSE LET w == Window(s, window, k)
                 mean == RDiv(SeqSum(w), Float(window))
                 sq == [j \in 1 .. window |-> RMul(RSub(w[j], mean), RSub(w[j], mean))]
             IN  RDiv(SeqSum(sq), Float(window - 1))]

\* Position k of Series.ewm(span=span, adjust=False).mean(): the series itself at
\* the first position, then (1 - alpha) * previous + alpha * value with
\* alpha = 2 / (span + 1); the mean starts at the first value that is not NaN.
\* ewm_range is the mean at position b given the mean at position a <= b: the
\* values at a + 1 .. b are taken in their order, one half of them after the other.
RECURSIVE ewm_range(_, _, _, _, _)
ewm_range(s, span, mean, a, b) ==
    LET alpha == Rat(2, span + 1)
        mid == (a + b) \div 2
        half == ewm_range(s, span, mean, a, mid)
    IN  IF a = b THEN mean
        ELSE IF b = a + 1
        THEN IF mean = NaN THEN s[b]
             ELSE RAdd(RMul(RSub(One, alpha), mean), RMul(alpha, s[b]))
        ELSE IF half = NaN THEN ewm_range(s, span, NaN, mid, b)
        ELSE ewm_range(s, span, half, mid, b)

ewm_at(s, span, k) == ewm_range(s, span, s[1], 1, k)

\* Series.ewm(span=span, adjust=False).mean()
ewm_mean(s, span) == [k \in 1 .. Len(s) |-> ewm_at(s, span, k)]

\* d > m * std on floats, for m >= 0 and std the square root of the variance v:
\* False when the standard deviation is NaN.
GtStd(d, m, v) ==
    /\ v # NaN
    /\ RLt(Zero, d)
    /\ RLt(RMul(RMul(m, m), v), RMul(d, d))

\* MinMax.get
MinMax_get(ind, prices) ==
    LET min == rolling_min(prices, ind.buy_window)
        max == rolling_max(prices, ind.sell_window)
    IN  [k \in 1 .. Len(prices) |->
            [buy |-> FLt(prices[k], min[k]), sell |-> FLt(max[k], prices[k])]]

\* Bollinger bands with buy_multiplier standard deviations under the EMA of
\* buy_window and sell_multiplier standard deviations over the EMA of sell_window.
Bands(prices, buy_window, sell_window, buy_multiplier, sell_multiplier) ==
    LET upper_ema == ewm_mean(prices, sell_window)
        upper_var == rolling_var(prices, sell_window)
        lower_ema == ewm_mean(prices, buy_window)
        lower_var == rolling_var(prices, buy_window)
    IN  [k \in 1 .. Len(prices) |->
            [buy |-> GtStd(RSub(lower_ema[k], prices[k]), buy_multiplier, lower_var[k]),
             sell |-> GtStd(RSub(prices[k], upper_ema[k]), sell_multiplier, upper_var[k])]]

\* BollingerBands.get: the upper band is upper_ema + lower_band_multiplier *
\* upper_std and the lower band is lower_ema - upper_band_multiplier * lower_std.
BollingerBands_get(ind, prices) ==
    Bands(prices, ind.buy_window, ind.sell_window,
          ind.upper_band_multiplier, ind.lower_band_multiplier)

\* RSI.get, the rsi column: price_change, gain, loss, their rolling means, rs and rsi.
RSI_rsi(ind, prices) ==
    LET change(k) == RSub(prices[k], prices[k - 1])
        gain == [k \in 1 .. Len(prices) |->
                    IF k > 1 /\ RLt(Zero, change(k)) THEN change(k) ELSE Zero]
        loss == [k \in 1 .. Len(prices) |->
                    IF k > 1 /\ RLt(change(k), Zero) THEN RNeg(change(k)) ELSE Zero]
        avg_gain == rolling_mean(gain, ind.window)
        avg_loss == rolling_mean(loss, ind.window)
        rs == [k \in 1 .. Len(prices) |-> FDiv(avg_gain[k], avg_loss[k])]
    IN  [k \in 1 .. Len(prices) |->
            IF rs[k] = NaN THEN NaN
            ELSE IF rs[k] = Inf THEN Float(100)
            ELSE RSub(Float(100), RDiv(Float(100), RAdd(One, rs[k])))]

\* RSI.get, the buy and sell columns.
RSI_get(ind, prices) ==
    LET rsi == RSI_rsi(ind, prices)
    IN  [k \in 1 .. Len(prices) |->
            [buy |-> FLt(rsi[k], ind.buy_threshold), sell |-> FLt(ind.sell_threshold, rsi[k])]]

\* MACD.get with the comparisons of macd and signal made inclusive.
MACD_get_inclusive(ind, prices) ==
    LET short_ema == ewm_mean(prices, ind.short_window)
        long_ema == ewm_mean(prices, ind.long_window)
        macd == [k \in 1 .. Len(prices) |-> RSub(short_ema[k], long_ema[k])]
        signal == ewm_mean(macd, ind.signal_window)
    IN  [k \in 1 .. Len(prices) |->
            [buy |-> RLe(signal[k], macd[k]), sell |-> RLe(macd[k], signal[k])]]

\* MACD.get
MACD_get(ind, prices) ==
    LET short_ema == ewm_mean(prices, ind.short_window)
        long_ema == ewm_mean(prices, ind.long_window)
        macd == [k \in 1 .. Len(prices) |-> RSub(short_ema[k], long_ema[k])]
        signal == ewm_mean(macd, ind.signal_window)
    IN  [k \in 1 .. Len(prices) |->
            [buy |-> FLt(signal[k], macd[k]), sell |-> FLt(macd[k], signal[k])]]

\* dp.indicators.get(sp.data), by the class of the indicator.
get(ind, prices) ==
    CASE ind.kind = "MinMax" -> MinMax_get(ind, prices)
      [] ind.kind = "BollingerBands" -> BollingerBands_get(ind, prices)
      [] ind.kind = "RSI" -> RSI_get(ind, prices)
      [] ind.kind = "MACD" -> MACD_get(ind, prices)

\* The windows an indicator is configured with.
windows(ind) ==
    CASE ind.kind = "MinMax" -> {ind.buy_window, ind.sell_window}
      [] ind.kind = "BollingerBands" -> {ind.buy_window, ind.sell_window}
      [] ind.kind = "RSI" -> {ind.window}
      [] ind.kind = "MACD" -> {ind.short_window, ind.long_window, ind.signal_window}

SetMax(S) == CHOOSE x \in S : \A y \in S : y <= x

(***************************************************************************)
(* RunSpec: a Simulation constructed over a series and an indicator, and   *)
(* its run over the series.                                                *)
(***************************************************************************)
ClosePrices == {Float(1), Float(2), Float(3), Float(4)}
Series == UNION {[1 .. n -> ClosePrices] : n \in 0 .. MaxTicks}
Windows == {1, 2, 3}
Multipliers == {Rat(1, 4), One}

MinMaxes == [kind : {"MinMax"}, buy_window : Windows, sell_window : Windows]
BollingerBandses ==
    [kind : {"BollingerBands"}, buy_window : Windows, sell_window : Windows,
     lower_band_multiplier : Multipliers, upper_band_multiplier : Multipliers]
RSIs == [kind : {"RSI"}, window : Windows, buy_threshold : {Float(30)},
         sell_threshold : {Float(70)}]
MACDs == [kind : {"MACD"}, short_window : {1, 2}, long_window : {2, 3},
          signal_window : {1, 2}]
IndicatorsSet == MinMaxes \cup BollingerBandses \cup RSIs \cup MACDs

\* The parameters a Simulation is constructed with.
RunInit ==
    /\ sp = [initial_cash |-> Float(main_initial_cash), min_cash |-> Float(main_min_cash),
             leverage |-> main_leverage, trade_cooldown |-> 0]
    /\ dp = [stop_loss_pct |-> Rat(1, 20), take_profit_pct |-> Rat(1, 10),
             investment_pct |-> Rat(1, 2)]
    /\ Portfolio_init
    /\ data \in Series
    /\ indicators \in IndicatorsSet
    /\ signals = <<>>
    /\ NoSweep

\* Simulation.__init__: the signals are computed once, before the run.
Simulation_init ==
    /\ last.op = "none"
    /\ signals' = get(indicators, data)
    /\ last' = [NoCall EXCEPT !.op = "init"]
    /\ UNCHANGED <<sweepVars, sp, dp, cash, positions, cooldown, i, steps, opened, realized,
                   closed, callTicks, openTick, data, indicators>>

\* One iteration of the loop of run: tick i of the series and its signals.
Simulation_run_tick ==
    /\ last.op \in {"init", "run"}
    /\ i < Len(data)
    /\ Simulation_run_step(data[i + 1], signals[i + 1].buy, signals[i + 1].sell)

\* The series is exhausted: run returns.
Simulation_run_end ==
    /\ last.op \in {"init", "run"}
    /\ i = Len(data)
    /\ Simulation_run_return

RunNext ==
    \/ Simulation_init
    \/ Simulation_run_tick
    \/ Simulation_run_end

RunSpec == RunInit /\ [][RunNext]_vars

\* run is a loop without a blocking call: while it has not returned it takes its
\* next step (WF_vars(RunNext) with the guard written out).
FairRunSpec == RunSpec /\ ([]<>(last.op = "return") \/ []<><<RunNext>>_vars)

(***************************************************************************)
(* The parameter sweep (src/strategy_tester.py): its Portfolio, its        *)
(* StrategyTester and simulate_p.  Index idx of prices is position idx + 1 *)
(* of the sequence.                                                        *)
(***************************************************************************)
INITIAL_CASH == 500
MONTHLY_DEPOSIT == 0
YEARS == 10
MIN_BUY_BALANCE == 20
MIN_SELL_PRICE == 20
BUY_COOLDOWN == 5
SELL_COOLDOWN == 5
TRADING_YEAR == 252
TRADING_MONTH == 21

\* Portfolio.__init__ of strategy_tester
Portfolio(c, stock, monthly_deposit) ==
    [initial_cash |-> c, cash |-> c, stock |-> stock, months |-> 0,
     monthly_deposit |-> monthly_deposit, start_price |-> None, current_price |-> None,
     buys |-> 0, sells |-> 0, buy_cooldown |-> 0, sell_cooldown |-> 0]

\* buy restarting its cooldown when it refuses.
buy_restart_on_refusal(pf, stock_price, percent) ==
    IF RLt(pf.cash, Float(MIN_BUY_BALANCE)) \/ pf.buy_cooldown > 0
    THEN [ok |-> FALSE, portfolio |-> [pf EXCEPT !.buy_cooldown = BUY_COOLDOWN]]
    ELSE LET bought == RDiv(RMul(pf.cash, percent), stock_price)
         IN  [ok |-> TRUE,
              portfolio |-> [pf EXCEPT !.cash = RSub(@, RMul(bought, stock_price)),
                                       !.stock = RAdd(@, bought),
                                       !.buys = @ + 1,
                                       !.buy_cooldown = BUY_COOLDOWN]]

\* Portfolio.buy: the value returned and the portfolio after the call.
buy(pf, stock_price, percent) ==
    IF RLt(pf.cash, Float(MIN_BUY_BALANCE)) \/ pf.buy_cooldown > 0
    THEN [ok |-> FALSE, portfolio |-> pf]
    ELSE LET bought == RDiv(RMul(pf.cash, percent), stock_price)
         IN  [ok |-> TRUE,
              portfolio |-> [pf EXCEPT !.cash = RSub(@, RMul(bought, stock_price)),
                                       !.stock = RAdd(@, bought),
                                       !.buys = @ + 1,
                                       !.buy_cooldown = BUY_COOLDOWN]]

\* sell crediting the part sold and dropping the rest of the stock.
sell_all_stock(pf, stock_price, percent) ==
    IF RLt(RMul(pf.stock, stock_price), Float(MIN_SELL_PRICE)) \/ pf.sell_cooldown > 0
    THEN [ok |-> FALSE, portfolio |-> pf]
    ELSE LET sold == RMul(pf.stock, percent)
         IN  [ok |-> TRUE,
              portfolio |-> [pf EXCEPT !.cash = RAdd(@, RMul(sold, stock_price)),
                                       !.stock = Zero,
                                       !.sells = @ + 1,
                                       !.sell_cooldown = SELL_COOLDOWN]]

\* Portfolio.sell
sell(pf, stock_price, percent) ==
    IF RLt(RMul(pf.stock, stock_price), Float(MIN_SELL_PRICE)) \/ pf.sell_cooldown > 0
    THEN [ok |-> FALSE, portfolio |-> pf]
    ELSE LET sold == RMul(pf.stock, percent)
         IN  [ok |-> TRUE,
              portfolio |-> [pf EXCEPT !.cash = RAdd(@, RMul(sold, stock_price)),
                                       !.stock = RSub(@, sold),
                                       !.sells = @ + 1,
                                       !.sell_cooldown = SELL_COOLDOWN]]

\* new_month without the count of the months.
new_month_uncounted(pf) == [pf EXCEPT !.cash = RAdd(@, pf.monthly_deposit)]

\* Portfolio.new_month
new_month(pf) ==
    [pf EXCEPT !.cash = RAdd(@, pf.monthly_deposit), !.months = @ + 1]

\* performance that does not take the deposits out of the profit.
performance_with_deposits(pf) ==
    LET profit_cash == RAdd(pf.cash, RMul(pf.stock, pf.current_price))
        profit == RDiv(RMul(Float(100), profit_cash), pf.initial_cash)
        baseline == RDiv(RMul(Float(100), pf.current_price), pf.start_price)
    IN  RSub(RDiv(RMul(Float(100), profit), baseline), Float(100))

\* Portfolio.performance
performance(pf) ==
    LET profit_cash == RSub(RAdd(pf.cash, RMul(pf.stock, pf.current_price)),
                            RMul(pf.monthly_deposit, Float(pf.months)))
        profit == RDiv(RMul(Float(100), profit_cash), pf.initial_cash)
        baseline == RDiv(RMul(Float(100), pf.current_price), pf.start_price)
    IN  RSub(RDiv(RMul(Float(100), profit), baseline), Float(100))

\* StrategyTester.__init__
StrategyTester(buy_window, buy_percent, sell_window, sell_percent, sell_bb_multiplier, buy_bb_multiplier) ==
    [buy_window |-> buy_window, buy_percent |-> buy_percent,
     sell_window |-> sell_window, sell_percent |-> sell_percent,
     sell_bb_multiplier |-> sell_bb_multiplier, buy_bb_multiplier |-> buy_bb_multiplier,
     buy_points |-> <<>>, sell_points |-> <<>>]

\* StrategyTester.bb_indicators: the EMA and the variance behind each band; the
\* sell band is sell_ema + sell_bb_multiplier * sell_std and the buy band is
\* buy_ema - buy_bb_multiplier * buy_std.
bb_indicators(sim, prices) ==
    [sell_ema |-> ewm_mean(prices, sim.sell_window),
     sell_var |-> rolling_var(prices, sim.sell_window),
     buy_ema |-> ewm_mean(prices, sim.buy_window),
     buy_var |-> rolling_var(prices, sim.buy_window)]

\* d >= m * std on floats, for m >= 0 and std the square root of the variance v:
\* False when the standard deviation is NaN.
GeStd(d, m, v) ==
    /\ v # NaN
    /\ RLe(Zero, d)
    /\ RLe(RMul(RMul(m, m), v), RMul(d, d))

\* prices[i] <= indicators["buy"][i]
at_buy_band(sim, prices, ind, k) ==
    GeStd(RSub(ind.buy_ema[k], prices[k]), sim.buy_bb_multiplier, ind.buy_var[k])

\* prices[i] >= indicators["sell"][i]
at_sell_band(sim, prices, ind, k) ==
    GeStd(RSub(prices[k], ind.sell_ema[k]), sim.sell_bb_multiplier, ind.sell_var[k])

\* One iteration of the loop of StrategyTester.simulate, on index idx of prices.
simulate_step(sim, pf, prices, ind, idx) ==
    LET price == prices[idx + 1]
        cooled == [pf EXCEPT !.buy_cooldown = @ - 1, !.sell_cooldown = @ - 1]
        month == IF idx % TRADING_MONTH = 0 THEN new_month(cooled) ELSE cooled
        b == IF at_buy_band(sim, prices, ind, idx + 1)
             THEN buy(month, price, sim.buy_percent)
             ELSE [ok |-> FALSE, portfolio |-> month]
        sim_b == IF b.ok THEN [sim EXCEPT !.buy_points = Append(@, idx)] ELSE sim
        s == IF at_sell_band(sim, prices, ind, idx + 1)
             THEN sell(b.portfolio, price, sim.sell_percent)
             ELSE [ok |-> FALSE, portfolio |-> b.portfolio]
        sim_s == IF s.ok THEN [sim_b EXCEPT !.sell_points = Append(@, idx)] ELSE sim_b
    IN  [simulator |-> sim_s, portfolio |-> s.portfolio]

\* The loop of StrategyTester.simulate from index idx to the end of prices.
RECURSIVE simulate_loop(_, _, _, _, _)
simulate_loop(sim, pf, prices, ind, idx) ==
    IF idx >= Len(prices) THEN [simulator |-> sim, portfolio |-> pf]
    ELSE LET r == simulate_step(sim, pf, prices, ind, idx)
         IN  simulate_loop(r.simulator, r.portfolio, prices, ind, idx + 1)

\* start_idx of StrategyTester.simulate
start_idx(sim, prices, years) ==
    SetMax({Len(prices) - years * TRADING_YEAR, sim.buy_window, sim.sell_window})

\* StrategyTester.simulate: prices[start_idx] raises when start_idx is not an
\* index of prices, before the portfolio is touched.
simulate(sim, pf, prices, years) ==
    LET start == start_idx(sim, prices, years)
    IN  IF start >= Len(prices)
        THEN [raised |-> TRUE, simulator |-> sim, portfolio |-> pf]
        ELSE LET started == [pf EXCEPT !.start_price = prices[start + 1],
                                       !.current_price = prices[Len(prices)]]
                 r == simulate_loop(sim, started, prices, bb_indicators(sim, prices),
                                    start)
             IN  [raised |-> FALSE, simulator |-> r.simulator, portfolio |-> r.portfolio]

\* simulate_p: the tuple it returns, or the exception of simulate.
simulate_p(prices, param_set) ==
    LET sim == StrategyTester(param_set[1], param_set[2], param_set[3], param_set[4],
                              param_set[5], param_set[6])
        r == simulate(sim, Portfolio(Float(INITIAL_CASH), Zero, Float(MONTHLY_DEPOSIT)),
                      prices, YEARS)
    IN  IF r.raised THEN [raised |-> TRUE, result |-> <<>>]
        ELSE [raised |-> FALSE,
              result |-> <<performance(r.portfolio), r.simulator, r.portfolio>>]

(***************************************************************************)
(* TesterSpec: one call of simulate_p, in its steps.                       *)
(***************************************************************************)
Percents == {Rat(1, 2), One}
ParamSets == Windows \X Percents \X Windows \X Percents \X Multipliers \X Multipliers

\* The day-trading Simulation is not in use.
NoSimulation ==
    /\ sp = [initial_cash |-> Float(main_initial_cash), min_cash |-> Float(main_min_cash),
             leverage |-> main_leverage, trade_cooldown |-> 0]
    /\ dp = [stop_loss_pct |-> Rat(1, 20), take_profit_pct |-> Rat(1, 10),
             investment_pct |-> Rat(1, 2)]
    /\ Portfolio_init
    /\ indicators = [kind |-> "none"]
    /\ signals = <<>>

\* simulate_p up to the call of simulate: the StrategyTester and the Portfolio
\* are constructed.
TesterInit ==
    /\ NoSimulation
    /\ data \in Series
    /\ \E ps \in ParamSets :
          simulator = StrategyTester(ps[1], ps[2], ps[3], ps[4], ps[5], ps[6])
    /\ portfolio = Portfolio(Float(INITIAL_CASH), Zero, Float(MONTHLY_DEPOSIT))
    /\ params = <<>>
    /\ pool = [kind |-> "none"]
    /\ results = <<>>
    /\ pc = "simulate"
    /\ shown = [kind |-> "none"]
    /\ validate_results = <<>>

\* simulator.simulate(portfolio, data, YEARS)
StrategyTester_simulate ==
    LET r == simulate(simulator, portfolio, data, YEARS)
    IN  /\ pc = "simulate"
        /\ simulator' = r.simulator
        /\ portfolio' = r.portfolio
        /\ pc' = IF r.raised THEN "raised" ELSE "performance"
        /\ UNCHANGED <<dayVars, seriesVars, shown, validate_results, params, pool, results>>

\* return portfolio.performance(), simulator, portfolio; the caller keeps the
\* tuples of its calls in results.
simulate_p_return ==
    /\ pc = "performance"
    /\ results' = Append(results, <<performance(portfolio), simulator, portfolio>>)
    /\ pc' = "returned"
    /\ UNCHANGED <<dayVars, seriesVars, shown, validate_results, simulator, portfolio, params, pool>>

TesterNext ==
    \/ StrategyTester_simulate
    \/ simulate_p_return

TesterSpec == TesterInit /\ [][TesterNext]_vars

(***************************************************************************)
(* TwiceSpec: simulate_p called twice in a row with the same data and the  *)
(* same param_set, on series of two prices.                                *)
(***************************************************************************)
TwiceSeries == UNION {[1 .. n -> {Float(1), Float(2)}] : n \in 0 .. MaxTicks}

TwiceInit ==
    /\ NoSimulation
    /\ data \in TwiceSeries
    /\ \E ps \in ParamSets :
          simulator = StrategyTester(ps[1], ps[2], ps[3], ps[4], ps[5], ps[6])
    /\ portfolio = Portfolio(Float(INITIAL_CASH), Zero, Float(MONTHLY_DEPOSIT))
    /\ params = <<>>
    /\ pool = [kind |-> "none"]
    /\ results = <<>>
    /\ pc = "simulate"
    /\ shown = [kind |-> "none"]
    /\ validate_results = <<>>

\* The StrategyTester of the previous call handed on as it is.
simulate_p_kept(sim) == sim

\* simulator = StrategyTester(...) in simulate_p: every call constructs its own
\* object from its arguments, here those of the previous call.
simulate_p_StrategyTester(sim) ==
    StrategyTester(sim.buy_window, sim.buy_percent, sim.sell_window, sim.sell_percent,
                   sim.sell_bb_multiplier, sim.buy_bb_multiplier)

\* simulate_p is called a second time with the same data and the same
\* param_set: up to the call of simulate.
simulate_p_again ==
    /\ pc = "returned"
    /\ Len(results) = 1
    /\ simulator' = simulate_p_StrategyTester(simulator)
    /\ portfolio' = Portfolio(Float(INITIAL_CASH), Zero, Float(MONTHLY_DEPOSIT))
    /\ pc' = "simulate"
    /\ UNCHANGED <<dayVars, seriesVars, shown, validate_results, params, pool, results>>

TwiceNext ==
    \/ StrategyTester_simulate
    \/ simulate_p_return
    \/ simulate_p_again

TwiceSpec == TwiceInit /\ [][TwiceNext]_vars

(***************************************************************************)
(* PerformanceSpec: Portfolio.performance on the portfolios of a bounded    *)
(* set: any cash, stock, months and deposit, positive prices and positive  *)
(* initial cash.                                                           *)
(***************************************************************************)
PerformanceCashes == {Zero, Float(250), Float(600)}
PerformanceStocks == {Zero, One, Rat(5, 2)}
PerformancePrices == {One, Float(2), Rat(5, 2)}
PerformanceDeposits == {Zero, Float(50)}
PerformanceMonths == {0, 1, 2}
Portfolios ==
    {[Portfolio(initial, stock, deposit) EXCEPT !.cash = c, !.months = months,
                                                !.start_price = start,
                                                !.current_price = current] :
        initial \in {Float(100), Float(INITIAL_CASH)}, c \in PerformanceCashes,
        stock \in PerformanceStocks, deposit \in PerformanceDeposits,
        months \in PerformanceMonths, start \in PerformancePrices,
        current \in PerformancePrices}

PerformanceInit ==
    /\ NoSimulation
    /\ data = <<>>
    /\ simulator = [kind |-> "none"]
    /\ portfolio \in Portfolios
    /\ params = <<>>
    /\ pool = [kind |-> "none"]
    /\ results = <<>>
    /\ pc = "performance"
    /\ shown = [kind |-> "none"]
    /\ validate_results = <<>>

\* portfolio.performance()
Portfolio_performance ==
    /\ pc = "performance"
    /\ results' = <<performance(portfolio)>>
    /\ pc' = "returned"
    /\ UNCHANGED <<dayVars, seriesVars, shown, validate_results, simulator, portfolio, params, pool>>

PerformanceSpec == PerformanceInit /\ [][Portfolio_performance]_vars

(***************************************************************************)
(* SimulateSpec: StrategyTester.simulate iteration by iteration, with a    *)
(* monthly deposit, on series that cross no, one and two multiples of      *)
(* TRADING_MONTH.  A flat series is run with windows 1 and 2 (with window  *)
(* 2 the bands are the price and the run trades); a moving series is run   *)
(* with window 1, where the bands are NaN and nothing is traded; every     *)
(* series of MaxTicks closes is run with windows of 2, with percents that  *)
(* include 0, so that buys and sells are made at different prices.         *)
(***************************************************************************)
MonthLens == {TRADING_MONTH - 1, TRADING_MONTH + 1, 2 * TRADING_MONTH + 1}
FlatSeries ==
    {[k \in 1 .. n |-> price] : n \in {1} \cup MonthLens, price \in {Float(1), Float(2)}}
MovingSeries ==
    {[k \in 1 .. n |-> Float(1 + (k % 2))] : n \in MonthLens}
        \cup {[k \in 1 .. n |-> Float(k)] : n \in MonthLens}
MonthlyDeposits == {Zero, Float(50), Float(100)}

SimulateInit ==
    /\ NoSimulation
    /\ \/ /\ data \in FlatSeries
          /\ \E buy_window \in {1, 2}, sell_window \in {1, 2}, percent \in Percents :
                simulator = StrategyTester(buy_window, percent, sell_window, percent,
                                           Rat(1, 4), Rat(1, 4))
       \/ /\ data \in MovingSeries
          /\ simulator = StrategyTester(1, One, 1, One, Rat(1, 4), Rat(1, 4))
       \/ /\ data \in {s \in Series : Len(s) = MaxTicks}
          /\ \E percent \in Percents \cup {Zero} :
                simulator = StrategyTester(2, percent, 2, percent, Rat(1, 4), Rat(1, 4))
    /\ \E deposit \in MonthlyDeposits : portfolio = Portfolio(Float(INITIAL_CASH), Zero, deposit)
    /\ params = <<>>
    /\ pool = [kind |-> "none"]
    /\ results = <<>>
    /\ pc = "simulate"
    /\ shown = [kind |-> "none"]
    /\ validate_results = <<>>

\* simulate up to its loop: start_idx, start_price and current_price.
StrategyTester_simulate_start ==
    LET start == start_idx(simulator, data, YEARS)
    IN  /\ pc = "simulate"
        /\ IF start >= Len(data)
           THEN pc' = "raised" /\ UNCHANGED <<portfolio, i>>
           ELSE /\ pc' = "loop"
                /\ portfolio' = [portfolio EXCEPT !.start_price = data[start + 1],
                                                    !.current_price = data[Len(data)]]
                /\ i' = start
        /\ UNCHANGED <<seriesVars, shown, validate_results, simulator, params, pool, results>>
        /\ UNCHANGED <<sp, dp, cash, positions, cooldown, steps, opened, realized, closed, callTicks, last, openTick>>

\* for i in range(start_idx, len(prices)): one iteration, or the end of the loop.
StrategyTester_simulate_tick ==
    /\ pc = "loop"
    /\ IF i < Len(data)
       THEN LET r == simulate_step(simulator, portfolio, data, bb_indicators(simulator, data), i)
            IN  /\ simulator' = r.simulator
                /\ portfolio' = r.portfolio
                /\ i' = i + 1
                /\ pc' = pc
       ELSE pc' = "performance" /\ UNCHANGED <<simulator, portfolio, i>>
    /\ UNCHANGED <<seriesVars, shown, validate_results, params, pool, results>>
    /\ UNCHANGED <<sp, dp, cash, positions, cooldown, steps, opened, realized, closed, callTicks, last, openTick>>

SimulateNext ==
    \/ StrategyTester_simulate_start
    \/ StrategyTester_simulate_tick
    \/ simulate_p_return

SimulateSpec == SimulateInit /\ [][SimulateNext]_vars

(***************************************************************************)
(* ValidateSpec: simulate_p on a series of MaxTicks closes, then validate  *)
(* on its result.  validate downloads the whole history of the stock and   *)
(* runs res[1].simulate on it with a new Portfolio and years =             *)
(* len(validate_data) // TRADING_YEAR; res[1] is the StrategyTester of the *)
(* result, the object simulate_p ran.  The history is flat (the means of a *)
(* series that moves over TRADING_YEAR closes do not fit the integers of   *)
(* TLC); one history is shorter than a trading year.                       *)
(***************************************************************************)
ValidateSeries ==
    {[k \in 1 .. n |-> price] : n \in {TRADING_YEAR - 1, TRADING_YEAR + 2},
                                price \in {Float(1), Float(2)}}

ValidateInit ==
    /\ NoSimulation
    /\ data \in {s \in TwiceSeries : Len(s) = MaxTicks}
    /\ \E window \in {1, 2} :
          simulator = StrategyTester(window, One, window, One, Rat(1, 4), Rat(1, 4))
    /\ portfolio = Portfolio(Float(INITIAL_CASH), Zero, Float(MONTHLY_DEPOSIT))
    /\ params = <<>>
    /\ pool = [kind |-> "none"]
    /\ results = <<>>
    /\ pc = "simulate"
    /\ shown = [kind |-> "none"]
    /\ validate_results = <<>>

\* The body of the loop of validate up to the loop of simulate: the download, the
\* new Portfolio, and res[1].simulate with its start_idx and prices[start_idx].
validate_simulate ==
    /\ pc = "returned"
    /\ validate_results = <<>>
    /\ \E validate_data \in ValidateSeries :
          LET years == Len(validate_data) \div TRADING_YEAR
              res == results[1]
              start == start_idx(res[2], validate_data, years)
              new == Portfolio(Float(INITIAL_CASH), Zero, Float(MONTHLY_DEPOSIT))
          IN  /\ data' = validate_data
              /\ simulator' = res[2]
              /\ IF start >= Len(validate_data)
                 THEN pc' = "raised" /\ portfolio' = new /\ UNCHANGED i
                 ELSE /\ pc' = "loop"
                      /\ portfolio' = [new EXCEPT !.start_price = validate_data[start + 1],
                                                  !.current_price = validate_data[Len(validate_data)]]
                      /\ i' = start
    /\ UNCHANGED <<indicators, signals, shown, validate_results, params, pool, results>>
    /\ UNCHANGED <<sp, dp, cash, positions, cooldown, steps, opened, realized, closed, callTicks, last, openTick>>

\* validate_results.append((portfolio.performance(), res[1], portfolio)): res[1] is
\* the object in the tuple of results, which holds what simulate appended to it.
validate_append ==
    /\ pc = "performance"
    /\ results # <<>>
    /\ validate_results' = Append(validate_results, <<performance(portfolio), simulator, portfolio>>)
    /\ results' = [results EXCEPT ![1][2] = simulator]
    /\ pc' = "validated"
    /\ UNCHANGED <<dayVars, seriesVars, shown, simulator, portfolio, params, pool>>

ValidateNext ==
    \/ StrategyTester_simulate_start
    \/ StrategyTester_simulate_tick
    \/ results = <<>> /\ simulate_p_return
    \/ validate_simulate
    \/ validate_append

ValidateSpec == ValidateInit /\ [][ValidateNext]_vars

(***************************************************************************)
(* SweepSpec: permutate_mp over a multiprocessing Pool, followed by the    *)
(* sort of show_top_n.  A task is the index of its parameter set in        *)
(* the product of params.  The workers take tasks from the queue of the pool in *)
(* the order of submission and finish them in any order; the result        *)
(* handler thread of the pool takes the outcomes in the order they were    *)
(* posted and runs the callback of the successful ones.                    *)
(***************************************************************************)
RECURSIVE Concat(_)
Concat(ss) == IF ss = <<>> THEN <<>> ELSE Head(ss) \o Concat(Tail(ss))

\* itertools.product of the axes, in its order: the last axis varies fastest.
RECURSIVE product(_)
product(axes) ==
    IF axes = <<>> THEN << <<>> >>
    ELSE LET rest == product(Tail(axes))
         IN  Concat([a \in 1 .. Len(Head(axes)) |->
                        [r \in 1 .. Len(rest) |-> <<Head(axes)[a]>> \o rest[r]]])

\* list.sort(key=lambda x: x[0], reverse=True): x placed in a list sorted by
\* descending performance, after the results that are not below it (the sort is
\* stable).
RECURSIVE sort_insert(_, _)
sort_insert(sorted, x) ==
    IF sorted = <<>> THEN <<x>>
    ELSE IF RLt(Head(sorted)[1], x[1]) THEN <<x>> \o sorted
    ELSE <<Head(sorted)>> \o sort_insert(Tail(sorted), x)

\* results.sort(key=lambda x: x[0], reverse=True)
RECURSIVE sort(_)
sort(rs) ==
    IF rs = <<>> THEN <<>>
    ELSE sort_insert(sort(SubSeq(rs, 1, Len(rs) - 1)), rs[Len(rs)])

SweepPrices == {Float(1), Float(2)}
SweepSeries == UNION {[1 .. n -> SweepPrices] : n \in 0 .. MaxTicks}
CpuCounts == {4, 5, 6}
AxesSet ==
    {<<buy_windows, <<One>>, <<2>>, sell_percents, <<Rat(1, 4)>>, <<Rat(1, 4)>>>> :
        buy_windows \in {<<>>, <<2>>, <<2, 2>>, <<2, 3>>},
        sell_percents \in {<<One>>, <<Rat(1, 2), One>>}}

\* permutate_mp is called with data and params on a machine of some cpu count.
SweepInit ==
    /\ NoSimulation
    /\ data \in SweepSeries
    /\ simulator = [kind |-> "none"]
    /\ portfolio = [kind |-> "none"]
    /\ params \in AxesSet
    /\ \E n \in CpuCounts :
          pool = [cpu_count |-> n, processes |-> 0, submitted |-> 0, inqueue |-> <<>>,
                  running |-> {}, outqueue |-> <<>>, failed |-> {}]
    /\ results = <<>>
    /\ pc = "Pool"
    /\ shown = [kind |-> "none"]
    /\ validate_results = <<>>

\* mp.Pool(mp.cpu_count() - 4): raises ValueError for less than one process.
permutate_mp_Pool ==
    /\ pc = "Pool"
    /\ IF pool.cpu_count - 4 < 1
       THEN pc' = "ValueError" /\ pool' = pool
       ELSE pc' = "apply_async" /\ pool' = [pool EXCEPT !.processes = pool.cpu_count - 4]
    /\ UNCHANGED <<dayVars, seriesVars, shown, validate_results, simulator, portfolio, params, results>>

\* pool.apply_async(simulate_p, args=(data, *param_set), callback=update) for the
\* next param_set of the product of params.
permutate_mp_apply_async ==
    /\ pc = "apply_async"
    /\ pool.submitted < Len(product(params))
    /\ pool' = [pool EXCEPT !.submitted = @ + 1, !.inqueue = Append(@, pool.submitted + 1)]
    /\ UNCHANGED <<dayVars, seriesVars, shown, validate_results, simulator, portfolio, params, results, pc>>

\* pool.close() after the last submission.
permutate_mp_close ==
    /\ pc = "apply_async"
    /\ pool.submitted = Len(product(params))
    /\ pc' = "join"
    /\ UNCHANGED <<dayVars, seriesVars, shown, validate_results, simulator, portfolio, params, pool, results>>

\* pool.join() returning with only the workers waited for.
joined_workers_only(pl) == pl.inqueue = <<>> /\ pl.running = {}

\* pool.join() returns: the workers have exited and the result handler has
\* handled every outcome.
joined(pl) == pl.inqueue = <<>> /\ pl.running = {} /\ pl.outqueue = <<>>

\* pool.join(), pbar.close() and return results.
permutate_mp_join ==
    /\ pc = "join"
    /\ joined(pool)
    /\ pc' = "returned"
    /\ UNCHANGED <<dayVars, seriesVars, shown, validate_results, simulator, portfolio, params, pool, results>>

\* A free worker process takes the next task of the queue.
Worker_get ==
    /\ pool.inqueue # <<>>
    /\ Cardinality(pool.running) < pool.processes
    /\ pool' = [pool EXCEPT !.inqueue = Tail(@), !.running = @ \cup {Head(pool.inqueue)}]
    /\ UNCHANGED <<dayVars, seriesVars, shown, validate_results, simulator, portfolio, params, results, pc>>

\* The worker of task id finishes simulate_p(data, *param_set) and posts its
\* return value or its exception.
Worker_simulate_p(id) ==
    /\ id \in pool.running
    /\ pool' = [pool EXCEPT !.running = @ \ {id},
                            !.outqueue = Append(@, [id |-> id,
                                                    outcome |-> simulate_p(data, product(params)[id])])]
    /\ UNCHANGED <<dayVars, seriesVars, shown, validate_results, simulator, portfolio, params, results, pc>>

\* A failed task discarding the results collected so far.
update_reset_on_failure(rs, outcome) ==
    IF outcome.raised THEN <<>> ELSE Append(rs, outcome.result)

\* def update(result): results.append(result).  The pool calls the callback of a
\* successful task only; apply_async is given no error_callback, so the exception
\* of a failed task stays in an AsyncResult nobody reads.
update(rs, outcome) == IF outcome.raised THEN rs ELSE Append(rs, outcome.result)

\* The result handler thread handles the next posted outcome.
ResultHandler ==
    /\ pool.outqueue # <<>>
    /\ LET o == Head(pool.outqueue)
       IN  /\ results' = update(results, o.outcome)
           /\ pool' = [pool EXCEPT !.outqueue = Tail(@),
                                   !.failed = IF o.outcome.raised THEN @ \cup {o.id} ELSE @]
    /\ UNCHANGED <<dayVars, seriesVars, shown, validate_results, simulator, portfolio, params, pc>>

\* The n of show_top_n: main passes 10; smaller ones cut the report short.
TopNs == {1, 2, 10}

\* results.sort(key=lambda x: x[0], reverse=True)
show_top_n_ascending(rs) == [k \in 1 .. Len(rs) |-> sort(rs)[Len(rs) + 1 - k]]
show_top_n_sort(rs) == sort(rs)

\* for i in range(min(n, len(results))): the entries printed and plotted.
show_top_n_report(rs, n) == SubSeq(rs, 1, IF n < Len(rs) THEN n ELSE Len(rs))

\* show_top_n(res, n, data): the sort, the report of the first entries and
\* draw_best(results[0][1], data), which raises IndexError on an empty list.
show_top_n(n) ==
    LET sorted == show_top_n_sort(results)
    IN  /\ pc = "returned"
        /\ results' = sorted
        /\ shown' = [kind |-> "top", n |-> n, reported |-> show_top_n_report(sorted, n),
                     best |-> IF sorted = <<>> THEN <<>> ELSE <<sorted[1][2]>>]
        /\ pc' = IF sorted = <<>> THEN "IndexError" ELSE "ranked"
        /\ UNCHANGED <<dayVars, seriesVars, simulator, portfolio, params, pool, validate_results>>

SweepNext ==
    \/ permutate_mp_Pool
    \/ permutate_mp_apply_async
    \/ permutate_mp_close
    \/ permutate_mp_join
    \/ Worker_get
    \/ \E id \in pool.running : Worker_simulate_p(id)
    \/ ResultHandler
    \/ \E n \in TopNs : show_top_n(n)

SweepSpec == SweepInit /\ [][SweepNext]_vars

\* Some step of the sweep is possible: the guards of the actions of SweepNext.
SweepEnabled ==
    \/ pc \in {"Pool", "apply_async", "returned"}
    \/ pc = "join" /\ joined(pool)
    \/ pool.inqueue # <<>> /\ Cardinality(pool.running) < pool.processes
    \/ pool.running # {}
    \/ pool.outqueue # <<>>

\* The main process, the worker processes and the result handler thread are
\* scheduled by the operating system: while some step of the sweep is possible
\* one is taken.  The second conjunct is WF_vars(SweepNext) with the guards
\* written out.
FairSweepSpec ==
    /\ SweepSpec
    /\ WF_vars(permutate_mp_Pool)
    /\ ([]<>(~SweepEnabled) \/ []<><<SweepNext>>_vars)

(***************************************************************************)
(* Properties                                                              *)
(***************************************************************************)
RECURSIVE SumClosable(_, _)
SumClosable(ps, price) ==
    IF ps = <<>> THEN Zero
    ELSE LET v == try_close(Head(ps), price)
         IN  RAdd(IF v = None THEN Zero ELSE v, SumClosable(Tail(ps), price))

Range(f) == {f[k] : k \in DOMAIN f}
Orderings(ps) == {q \in [1 .. Len(ps) -> Range(ps)] : Range(q) = Range(ps)}
Inside(p, price) == RLt(p.lower_bound_price, price) /\ RLt(price, p.upper_bound_price)
IsFloat(v) == v[2] > 0

\* C1: right after Portfolio.tick(price) no position is left in the portfolio whose
\* try_close(price) yields a value, and cash has grown by the proceeds of every
\* position of the list that met its close condition at that price.
C1_TickClosesEveryClosable ==
    last.op = "tick" =>
        /\ \A k \in 1 .. Len(positions) : try_close(positions[k], last.price) = None
        /\ cash = RAdd(last.pre_cash, SumClosable(last.pre_positions, last.price))

\* C2: for the open positions of any reachable portfolio and any price, tick leaves
\* the same cash and the same set of positions whatever the order of the list.
C2_TickOrderIndependent ==
    \A price \in Prices : \A q \in Orderings(positions) :
        /\ tick(q, cash, price).cash = tick(positions, cash, price).cash
        /\ Range(tick(q, cash, price).positions) = Range(tick(positions, cash, price).positions)

\* C3: try_close(price) returns None exactly when lower_bound < price < upper_bound,
\* returns a number when price <= lower_bound or price >= upper_bound, and leaves
\* every field of the position as it was.
C3_TryCloseNoneIffInside ==
    last.op = "try_close" =>
        LET p == last.pre_positions[1]
        IN  /\ (last.result = None) <=> Inside(p, last.price)
            /\ (RLe(last.price, p.lower_bound_price) \/ RLe(p.upper_bound_price, last.price))
                   => IsFloat(last.result)
            /\ positions = last.pre_positions

\* C3 witness: a call of try_close at the upper or the lower bound itself has
\* returned a value.
C3_Witness ==
    /\ last.op = "try_close"
    /\ last.price \in {positions[1].lower_bound_price, positions[1].upper_bound_price}
    /\ last.result # None

\* C4: a closing try_close returns margin * (1 + leverage * (price - open) / open)
\* for a long position and margin * (1 - leverage * (price - open) / open) for a
\* short one; margin 1000, open 100, stop-loss 5%, take-profit 10%, leverage 5 give
\* 1550 at 111 and 700 at 94 (long), 1550 at 89 and 700 at 106 (short), None at 105
\* (long) and at 95 (short).
C4_CloseValue ==
    last.op = "try_close" =>
        LET p == positions[1]
            sign == IF p.is_long THEN 1 ELSE -1
            move == RSub(last.price, p.open_price)
            example == /\ p.initial_margin = Float(1000) /\ p.open_price = Float(100)
                       /\ dp.stop_loss_pct = Rat(1, 20) /\ dp.take_profit_pct = Rat(1, 10)
                       /\ sp.leverage = 5
        IN  /\ last.result # None =>
                   RMul(last.result, p.open_price) =
                       RAdd(RMul(p.initial_margin, p.open_price),
                            RMul(RMul(p.initial_margin, Float(sp.leverage * sign)), move))
            /\ example /\ p.is_long /\ last.price = Float(111) => last.result = Float(1550)
            /\ example /\ p.is_long /\ last.price = Float(94) => last.result = Float(700)
            /\ example /\ p.is_long /\ last.price = Float(105) => last.result = None
            /\ example /\ ~p.is_long /\ last.price = Float(89) => last.result = Float(1550)
            /\ example /\ ~p.is_long /\ last.price = Float(106) => last.result = Float(700)
            /\ example /\ ~p.is_long /\ last.price = Float(95) => last.result = None

\* C4 witness: the short position of the tests has been closed at 89.
C4_Witness ==
    /\ last.op = "try_close"
    /\ ~positions[1].is_long
    /\ positions[1].initial_margin = Float(1000) /\ positions[1].open_price = Float(100)
    /\ dp.stop_loss_pct = Rat(1, 20) /\ dp.take_profit_pct = Rat(1, 10) /\ sp.leverage = 5
    /\ last.price = Float(89)
    /\ last.result = Float(1550)

BoundsAsConfigured(p) ==
    /\ p.upper_bound_price =
           RMul(p.open_price, RAdd(One, IF p.is_long THEN dp.take_profit_pct ELSE dp.stop_loss_pct))
    /\ p.lower_bound_price =
           RMul(p.open_price, RSub(One, IF p.is_long THEN dp.stop_loss_pct ELSE dp.take_profit_pct))
    /\ p.size = RMul(p.initial_margin, Float(sp.leverage))

OpenBetweenBounds(p) ==
    RLt(p.lower_bound_price, p.open_price) /\ RLt(p.open_price, p.upper_bound_price)

Created == Range(positions) \cup {c.position : c \in Range(closed)}

\* C5 as stated: every position open_position created has the bounds and the size
\* its configuration gives, and lower_bound < open_price < upper_bound, for every
\* configuration the code accepts.
C5_BoundsEveryConfiguration ==
    \A p \in Created : BoundsAsConfigured(p) /\ OpenBetweenBounds(p)

\* C5 amended: every position open_position created has the bounds and the size its
\* configuration gives; lower_bound < open_price < upper_bound holds when
\* stop_loss_pct > 0 and take_profit_pct > 0 (the open price being positive).
C5_BoundsAtCreation ==
    \A p \in Created :
        /\ BoundsAsConfigured(p)
        /\ RLt(Zero, dp.stop_loss_pct) /\ RLt(Zero, dp.take_profit_pct) => OpenBetweenBounds(p)

\* C5 witness: a short position was created under positive stop-loss and
\* take-profit fractions and a leverage above 1.
C5_Witness ==
    /\ RLt(Zero, dp.stop_loss_pct) /\ RLt(Zero, dp.take_profit_pct) /\ sp.leverage > 1
    /\ \E p \in Created : ~p.is_long /\ RLt(Zero, p.initial_margin)

\* C6: open_position called while cash <= min_cash leaves cash and the list of open
\* positions as they were.
C6_RefusedOpenIsNoOp ==
    last.op = "open_position" /\ RLe(last.pre_cash, sp.min_cash) =>
        cash = last.pre_cash /\ positions = last.pre_positions

\* C6 witness: open_position has been called with cash at or below min_cash.
C6_Witness ==
    /\ last.op = "open_position"
    /\ RLe(last.pre_cash, sp.min_cash)
    /\ last.pre_positions # <<>>

OpenCommits(strict) ==
    last.op = "open_position" /\ RLt(sp.min_cash, last.pre_cash) =>
        LET m == RMul(dp.investment_pct, last.pre_cash)
            n == Len(last.pre_positions)
        IN  /\ Len(positions) = n + 1
            /\ SubSeq(positions, 1, n) = last.pre_positions
            /\ positions[n + 1].initial_margin = m
            /\ positions[n + 1].size = RMul(m, Float(sp.leverage))
            /\ positions[n + 1].is_long = last.is_long
            /\ positions[n + 1].open_price = last.price
            /\ cash = RSub(last.pre_cash, m)
            /\ strict => RLt(cash, last.pre_cash)

\* C7 as stated: open_position called while cash > min_cash appends one position of
\* margin m = investment_pct * cash and size m * leverage, changes no other
\* position, and reduces cash by m, a strict decrease.
C7_OpenStrictlyDecreasesCash == OpenCommits(TRUE)

\* C7 amended: open_position called while cash > min_cash appends one position of
\* margin m = investment_pct * cash and size m * leverage, changes no other
\* position, and reduces cash by m; the decrease is strict when m > 0, that is when
\* investment_pct > 0 and cash > 0.
C7_OpenCommitsMargin == OpenCommits(RLt(Zero, RMul(dp.investment_pct, last.pre_cash)))

\* C7 witness: an accepted open_position under a positive investment fraction, with
\* a position already open.
C7_Witness ==
    /\ last.op = "open_position"
    /\ RLt(sp.min_cash, last.pre_cash)
    /\ RLt(Zero, dp.investment_pct)
    /\ last.pre_positions # <<>>
    /\ Len(positions) = Len(last.pre_positions) + 1

\* C8 as stated: the sum of the realized close values, the cash and the margins of
\* the open positions is the initial cash.
C8_RealizedPlusCashPlusMargins ==
    RAdd(realized, RAdd(cash, SumMargins(positions))) = sp.initial_cash

\* C8 amended: a close is paid into cash, so the cash and the margins of the open
\* positions together are the initial cash plus the realized close values less the
\* margins of the positions that were closed.
C8_ValueConservation ==
    RAdd(cash, SumMargins(positions)) =
        RSub(RAdd(sp.initial_cash, realized), SumMargins([k \in DOMAIN closed |-> closed[k].position]))

\* C8 witness: a position has been closed for a value other than its margin while
\* another is open.
C8_Witness ==
    /\ positions # <<>>
    /\ \E c \in Range(closed) : c.value # c.position.initial_margin

TotalValue(c, ps) == RAdd(c, SumMargins(ps))

\* C9: a tick on which no position meets its close condition, and an open_position
\* refused by the min_cash gate, leave cash + the margins of the open positions
\* unchanged.
C9_TotalValueKept ==
    \/ /\ last.op = "tick"
       /\ \A p \in Range(last.pre_positions) : Inside(p, last.price)
    \/ /\ last.op = "open_position"
       /\ ~RLt(sp.min_cash, last.pre_cash)
    => TotalValue(cash, positions) = TotalValue(last.pre_cash, last.pre_positions)

\* C9 witness: open_position has been refused while a position of positive margin
\* was open.
C9_Witness ==
    /\ last.op = "open_position"
    /\ ~RLt(sp.min_cash, last.pre_cash)
    /\ RLt(Zero, SumMargins(last.pre_positions))

\* C10: two ticks of run on which open_position is called are more than
\* trade_cooldown ticks apart, and when the tick trade_cooldown + 1 after such a
\* tick comes, the cooldown is 0 again.
C10_Cooldown ==
    /\ \A a, b \in 1 .. Len(callTicks) :
           a < b => callTicks[b] - callTicks[a] > sp.trade_cooldown
    /\ callTicks # <<>> /\ i = callTicks[Len(callTicks)] + sp.trade_cooldown + 1
           => cooldown = 0

\* C10 witness: under a positive cooldown open_position was called on a tick and
\* again on the tick trade_cooldown + 1 later.
C10_Witness ==
    /\ sp.trade_cooldown > 0
    /\ Len(callTicks) >= 2
    /\ callTicks[2] - callTicks[1] = sp.trade_cooldown + 1

\* C11: Simulation.run returns the cash after the last tick; the positions still
\* open are left open and their margins are not in the returned value, which is
\* initial_cash less the margins of the open positions plus, for every closed
\* position, its close value less its margin.
C11_RunReturnsCash ==
    last.op = "return" =>
        /\ last.result = cash
        /\ positions = last.pre_positions
        /\ last.result =
               RAdd(RSub(sp.initial_cash, SumMargins(positions)),
                    RSub(realized, SumMargins([k \in DOMAIN closed |-> closed[k].position])))

\* C11 witness: run has returned with a position still open and another closed at
\* a profit or a loss.
C11_Witness ==
    /\ last.op = "return"
    /\ positions # <<>>
    /\ \E c \in Range(closed) : c.value # c.position.initial_margin

\* The position of the series at which the longest window is first full.
WarmUp == SetMax(windows(indicators))

\* C12: for every indicator variant the buy and sell signals are both false at
\* every index before the longest configured window is full (index <
\* max(windows) - 1, position < max(windows)).
C12_NoSignalBeforeWarmUp ==
    last.op # "none" =>
        \A k \in 1 .. Len(signals) : k < WarmUp => ~signals[k].buy /\ ~signals[k].sell

\* C13: a run over a series shorter than the longest indicator window has no buy
\* or sell signal on any tick, opens no position and returns the initial cash.
C13_ShortSeriesNoTrade ==
    (last.op = "return" /\ Len(data) < WarmUp) =>
        /\ \A k \in 1 .. Len(signals) : ~signals[k].buy /\ ~signals[k].sell
        /\ opened = 0
        /\ positions = <<>>
        /\ last.result = sp.initial_cash

\* C14: the BollingerBands signals use the multipliers on the side they are named
\* for: sell is close > ema_sell + upper_band_multiplier * std_sell and buy is
\* close < ema_buy - lower_band_multiplier * std_buy, each EMA and standard
\* deviation over its own window.
C14_BollingerMultiplierSides ==
    (last.op # "none" /\ indicators.kind = "BollingerBands") =>
        signals = Bands(data, indicators.buy_window, indicators.sell_window,
                        indicators.lower_band_multiplier, indicators.upper_band_multiplier)

\* The rsi column of the configured RSI indicator over the series.
Rsi == RSI_rsi(indicators, data)

\* The average loss over the window that ends at position k is zero: no price of
\* the window is below the price before it.
NoLoss(k) ==
    \A j \in (k - indicators.window + 1) .. k : j > 1 => RLe(data[j - 1], data[j])

\* C15: in the RSI indicator, at every index with a full window whose average
\* loss is zero, RSI is 100 and never NaN, also when the average gain is zero; so
\* sell is true there when sell_threshold < 100.
C15_RsiHundredWithoutLoss ==
    (last.op # "none" /\ indicators.kind = "RSI") =>
        \A k \in 1 .. Len(data) :
            (k >= indicators.window /\ NoLoss(k)) =>
                /\ Rsi[k] = Float(100)
                /\ RLt(indicators.sell_threshold, Float(100)) => signals[k].sell

StrictlyIncreasing(s) == \A k \in 2 .. Len(s) : RLt(s[k - 1], s[k])
StrictlyDecreasing(s) == \A k \in 2 .. Len(s) : RLt(s[k], s[k - 1])

\* On a strictly increasing series RSI is 100 and sell fires from position
\* `from` on and buy never fires; on a strictly decreasing series RSI is 0 and
\* buy fires from position `from` on and sell never fires.
RsiMonotone(from) ==
    /\ StrictlyIncreasing(data) =>
           \A k \in 1 .. Len(data) :
               /\ ~signals[k].buy
               /\ k >= from =>
                      /\ Rsi[k] = Float(100)
                      /\ RLt(indicators.sell_threshold, Float(100)) => signals[k].sell
    /\ StrictlyDecreasing(data) =>
           \A k \in 1 .. Len(data) :
               /\ ~signals[k].sell
               /\ k >= from =>
                      /\ Rsi[k] = Zero
                      /\ RLt(Zero, indicators.buy_threshold) => signals[k].buy

Flat(s) == \A k \in 2 .. Len(s) : s[k] = s[1]

\* C17: a constant-close series gives no opened position and a final cash equal
\* to the initial cash in Simulation.run, and buys = sells = 0 with a performance
\* of 0 in StrategyTester.simulate.
C17_FlatSeriesNoTrade ==
    Flat(data) =>
        /\ last.op = "return" => opened = 0 /\ last.result = sp.initial_cash
        /\ pc = "returned" =>
               /\ portfolio.buys = 0
               /\ portfolio.sells = 0
               /\ results[1][1] = Zero

\* The tasks of the sweep and what simulate_p gives for each of them.
Tasks == product(params)
Outcome(id) == simulate_p(data, Tasks[id])
Succeeding == {id \in 1 .. Len(Tasks) : ~Outcome(id).raised}

RECURSIVE ProdLen(_)
ProdLen(axes) == IF axes = <<>> THEN 1 ELSE Len(Head(axes)) * ProdLen(Tail(axes))

\* rs holds the result of each task of ids exactly once, in some order.
OneResultEach(rs, ids) ==
    /\ Len(rs) = Cardinality(ids)
    /\ \E f \in [1 .. Len(rs) -> ids] :
          /\ \A j, k \in 1 .. Len(rs) : f[j] = f[k] => j = k
          /\ \A j \in 1 .. Len(rs) : rs[j] = Outcome(f[j]).result

\* C18: when permutate_mp returns and no task failed, results holds exactly one
\* result per element of the product of the axes, each the outcome of a fresh
\* simulate_p; every submitted task has been drained by then; and results only
\* ever grows by one result appended by the callback of the oldest posted outcome
\* (until it is sorted after the return).
C18_OneResultPerConfiguration ==
    /\ [](pc = "returned" =>
            /\ pool.submitted = Len(Tasks)
            /\ pool.inqueue = <<>> /\ pool.running = {} /\ pool.outqueue = <<>>
            /\ pool.failed = {} =>
                   /\ Len(results) = ProdLen(params)
                   /\ OneResultEach(results, 1 .. Len(Tasks)))
    /\ [][results' # results =>
            \/ pc = "returned"
            \/ /\ pool.outqueue # <<>>
               /\ ~Head(pool.outqueue).outcome.raised
               /\ results' = Append(results, Head(pool.outqueue).outcome.result)]_vars

\* C18 witness: permutate_mp has returned without a failure and the results are
\* not in the order of submission.
C18_Witness ==
    /\ pc = "returned"
    /\ pool.failed = {}
    /\ Len(results) >= 2
    /\ results[1] = Outcome(2).result
    /\ Outcome(1).result # Outcome(2).result

\* The results of the succeeding tasks in the order of submission.
RECURSIVE InSubmissionOrder(_)
InSubmissionOrder(n) ==
    IF n = 0 THEN <<>>
    ELSE IF n \in Succeeding THEN Append(InSubmissionOrder(n - 1), Outcome(n).result)
    ELSE InSubmissionOrder(n - 1)

\* C19: the ranked list after the sort of show_top_n is the same sequence for
\* every order of completion, ties included: it is the ranking of the run in
\* which the tasks complete in the order of submission.
C19_RankingIgnoresCompletionOrder ==
    pc = "ranked" => results = sort(InSubmissionOrder(Len(Tasks)))

\* C20: if a task raises inside simulate_p, every other task still delivers its
\* result, the failed task has no entry in results or in the ranking, and
\* permutate_mp returns normally: after a failure join is never blocked and no
\* exception reaches the caller of permutate_mp (the only one after it is the
\* IndexError of show_top_n when every task failed).
C20_FailedTaskIsolated ==
    /\ pc \in {"returned", "ranked"} =>
           /\ pool.failed = (1 .. Len(Tasks)) \ Succeeding
           /\ OneResultEach(results, Succeeding)
    /\ (pool.failed # {} /\ pc = "join") =>
           \/ joined(pool)
           \/ pool.running # {}
           \/ pool.outqueue # <<>>
           \/ pool.inqueue # <<>> /\ Cardinality(pool.running) < pool.processes
    /\ pool.failed # {} => pc \in {"apply_async", "join", "returned", "ranked", "IndexError"}
    /\ pc = "IndexError" => Succeeding = {}

\* C20 witness: permutate_mp has returned after a task failed, with the result of
\* another task.
C20_Witness ==
    /\ pc = "returned"
    /\ pool.failed # {}
    /\ results # <<>>

\* C21: a sweep with an empty parameter axis (its product has no element) is
\* rejected before a worker pool is created and before permutate_mp can return:
\* it never reaches the return of permutate_mp with an empty result list.
C21_EmptySweepRejected ==
    ProdLen(params) = 0 =>
        /\ pool.processes = 0
        /\ pc \in {"Pool", "ValueError"}

\* The param_set a StrategyTester was constructed with.
ParamSetOf(sim) ==
    <<sim.buy_window, sim.buy_percent, sim.sell_window, sim.sell_percent,
      sim.sell_bb_multiplier, sim.buy_bb_multiplier>>

ProfitCash(pf) ==
    RSub(RAdd(pf.cash, RMul(pf.stock, pf.current_price)),
         RMul(pf.monthly_deposit, Float(pf.months)))

\* C23 as stated: performance() equals
\* 100 * (profit_cash / initial_cash) / (100 * current_price / start_price) - 100.
C23_PerformanceAsStated ==
    pc = "returned" =>
        results[1] = RSub(RDiv(RMul(Float(100), RDiv(ProfitCash(portfolio), portfolio.initial_cash)),
                               RDiv(RMul(Float(100), portfolio.current_price),
                                    portfolio.start_price)),
                          Float(100))

\* C23: performance() equals
\* 100 * (100 * profit_cash / initial_cash) / (100 * current_price / start_price) - 100,
\* that is 100 * (profit_cash * start_price) / (initial_cash * current_price) - 100,
\* for every cash, stock, months and deposit and positive prices and initial cash.
C23_PerformanceFormula ==
    pc = "returned" =>
        results[1] = RSub(RDiv(RMul(Float(100), RMul(ProfitCash(portfolio), portfolio.start_price)),
                               RMul(portfolio.initial_cash, portfolio.current_price)),
                          Float(100))

\* C23 witness: the performance of a portfolio with stock, deposits and a price
\* that moved is computed, and it is not -100.
C23_Witness ==
    /\ pc = "returned"
    /\ portfolio.stock # Zero
    /\ portfolio.months > 0 /\ portfolio.monthly_deposit # Zero
    /\ portfolio.start_price # portfolio.current_price
    /\ results[1] # Float(-100)

\* The months begun in the iterations from..to - 1 of the loop of simulate.
Months(from, to) == Cardinality({j \in from .. to - 1 : j % TRADING_MONTH = 0})

\* C24: in StrategyTester.simulate an iteration that does not trade adds
\* monthly_deposit to cash exactly when i % TRADING_MONTH = 0 and counts a month
\* exactly then, so months is the number of such iterations so far; in a run
\* without a buy and a sell the deposit-adjusted profit stays initial_cash and the
\* performance is 100 * start_price / current_price - 100, whatever the deposit.
C24_MonthlyDeposit ==
    /\ [](pc \in {"loop", "performance", "returned"} =>
            /\ portfolio.months = Months(start_idx(simulator, data, YEARS), i)
            /\ (portfolio.buys = 0 /\ portfolio.sells = 0) =>
                   /\ portfolio.cash = RAdd(portfolio.initial_cash,
                                            RMul(portfolio.monthly_deposit,
                                                 Float(portfolio.months)))
                   /\ ProfitCash(portfolio) = portfolio.initial_cash
                   /\ pc = "returned" =>
                          results[1][1] = RSub(RDiv(RMul(Float(100), portfolio.start_price),
                                                    portfolio.current_price), Float(100)))
    /\ [][(pc = "loop" /\ i' = i + 1) =>
             /\ portfolio'.months = portfolio.months + (IF i % TRADING_MONTH = 0 THEN 1 ELSE 0)
             /\ (portfolio'.buys = portfolio.buys /\ portfolio'.sells = portfolio.sells) =>
                    portfolio'.cash = IF i % TRADING_MONTH = 0
                                      THEN RAdd(portfolio.cash, portfolio.monthly_deposit)
                                      ELSE portfolio.cash]_vars

\* C24 witness: a run that never traded has returned after two deposits of a
\* non-zero monthly_deposit, on a series that moved.
C24_Witness ==
    /\ pc = "returned"
    /\ portfolio.buys = 0 /\ portfolio.sells = 0
    /\ portfolio.months = 2
    /\ portfolio.monthly_deposit # Zero
    /\ portfolio.start_price # portfolio.current_price

\* C25: after show_top_n results is in non-increasing order of performance and
\* holds what was collected, exactly min(n, len(results)) entries are reported
\* (the first ones), and draw_best is given the strategy of results[0], whose
\* performance is the maximum of the results of all tasks that succeeded; on an
\* empty list nothing is reported and no entry reaches draw_best (IndexError).
C25_TopN ==
    /\ pc = "ranked" =>
           /\ \A j, k \in 1 .. Len(results) : j < k => RLe(results[k][1], results[j][1])
           /\ OneResultEach(results, Succeeding)
           /\ Len(shown.reported) = (IF shown.n < Len(results) THEN shown.n ELSE Len(results))
           /\ \A j \in 1 .. Len(shown.reported) : shown.reported[j] = results[j]
           /\ shown.best = <<results[1][2]>>
           /\ \A id \in Succeeding : RLe(Outcome(id).result[1], results[1][1])
           /\ \E id \in Succeeding : shown.best[1] = Outcome(id).result[2]
    /\ pc = "IndexError" => results = <<>> /\ shown.reported = <<>> /\ shown.best = <<>>

\* C25 witness: show_top_n has ranked two results of different performance, the
\* one of the second task first, and n cut the report short.
C25_Witness ==
    /\ pc = "ranked"
    /\ Len(results) >= 2
    /\ shown.n < Len(results)
    /\ RLt(results[2][1], results[1][1])
    /\ results[1] = Outcome(2).result
    /\ results[2] = Outcome(1).result

\* permutate_mp has returned its results (show_top_n may have run since).
Returned == pc \in {"returned", "ranked", "IndexError"}

\* The ids of the tasks of the largest sweep of AxesSet.
TaskIds == 1 .. 4

\* C26, the sweep: every task that was submitted eventually completes (its
\* outcome is handled) and permutate_mp eventually returns.
C26_SweepReturns ==
    /\ \A id \in TaskIds :
           (id <= pool.submitted) ~> (Returned /\ id \notin Range(pool.inqueue) \cup pool.running)
    /\ <>Returned

\* The part of C26 that holds of the sweep: once mp.Pool has created its
\* processes, every task is submitted and handled and permutate_mp returns.
SweepReturnsWithPool ==
    (pool.processes > 0) ~> (Returned /\ pool.submitted = Len(Tasks) /\ joined(pool))

\* The part of C26 that holds of Simulation.run: run returns, after exactly one
\* step per price, and a tick leaves every position it was given either open or
\* closed, the closed ones once.
RunTerminates ==
    /\ <>(last.op = "return")
    /\ [](last.op = "return" => i = Len(data))
    /\ [](last.op = "run" => Len(positions) + Len(closed) = opened)

\* The ids of the positions of a list, and of the positions tick has removed.
Ids(ps) == {ps[k].id : k \in DOMAIN ps}
ClosedIds == {closed[k].position.id : k \in DOMAIN closed}

\* The entries of closed that the last tick added.
JustClosed == SubSeq(closed, Len(closed) - (Len(last.pre_positions) - Len(positions)) + 1, Len(closed))

\* C27: a position is open and then closed, never anything else: the positions
\* ever opened are those open now and those closed, no position is both or is
\* listed twice; a tick credits cash with the value of each position it removes,
\* once, and touches no position that was removed before; open_position only
\* appends a new position.
C27_PositionLifeCycle ==
    /\ opened = Len(positions) + Len(closed)
    /\ Ids(positions) \cup ClosedIds = 1 .. opened
    /\ Ids(positions) \cap ClosedIds = {}
    /\ Cardinality(Ids(positions)) = Len(positions)
    /\ Cardinality(ClosedIds) = Len(closed)
    /\ realized = SumValues(closed)
    /\ last.op = "tick" =>
           /\ Range(positions) \subseteq Range(last.pre_positions)
           /\ \A c \in Range(JustClosed) :
                  /\ c.position \in Range(last.pre_positions)
                  /\ c.value = try_close(c.position, last.price)
                  /\ c.value # None
           /\ cash = RAdd(last.pre_cash, SumValues(JustClosed))
    /\ last.op = "open_position" =>
           \/ positions = last.pre_positions
           \/ /\ Len(positions) = Len(last.pre_positions) + 1
              /\ SubSeq(positions, 1, Len(last.pre_positions)) = last.pre_positions
              /\ positions[Len(positions)].id = opened

\* C27 witness: a tick has run over a portfolio with an open position after an
\* earlier tick had removed another.
C27_Witness ==
    /\ last.op = "tick"
    /\ Len(closed) > Len(JustClosed)
    /\ positions # <<>>

\* The positions run opened on tick t, among those of ps.
OpenedOn(ps, t) == {p \in Range(ps) : openTick[p.id] = t}

\* The part of C28 that holds: on every tick of run Portfolio.tick(price[i]) comes
\* before the openings, so a position opened on tick i is opened at price[i], is
\* still open after tick i and is not among the positions that tick closed.
TickThenOpen ==
    last.op = "run" =>
        /\ Len(openTick) = opened
        /\ \A p \in OpenedOn(positions, i - 1) :
               /\ p.open_price = last.price
               /\ p \notin Range(last.pre_positions)
        /\ \A c \in Range(closed) : openTick[c.position.id] < i - 1
        /\ \A id \in 1 .. opened :
               openTick[id] = i - 1 => id \in Ids(positions)

\* C28: a position opened on tick i of run is never closed on tick i and is first
\* tested for closing on tick i + 1, at price[i + 1]: if it meets its close
\* condition there, it is closed there.
C28_TestedOnNextTick ==
    /\ TickThenOpen
    /\ last.op = "run" =>
           \A p \in OpenedOn(last.pre_positions, i - 2) :
               try_close(p, last.price) # None => p \notin Range(positions)

\* C29: on a tick of run that inspects the signals with buy and sell both set,
\* the short position is opened exactly when open_position(SHORT) on the
\* portfolio after tick (before the long opening) would open one, and with the
\* margin it would get there.
C29_ShortIndependentOfLong ==
    (last.op = "run" /\ last.calls = 2) =>
        LET t == tick(last.pre_positions, last.pre_cash, last.price)
            alone == open_position(t.positions, t.cash, 0, SHORT, last.price)
            shorts == {p \in OpenedOn(positions, i - 1) : ~p.is_long}
        IN  /\ (shorts # {}) <=> (Len(alone.positions) > Len(t.positions))
            /\ \A p \in shorts :
                   p.initial_margin = alone.positions[Len(alone.positions)].initial_margin

\* C29 amended: on such a tick the sell signal is acted on whether or not the
\* long was opened, but the short is opened on what the long left: with c0 the
\* cash after tick, the long is opened iff c0 > min_cash, with margin
\* investment_pct * c0; the short is opened iff the cash c1 left after the long
\* is above min_cash, with margin investment_pct * c1; the long comes first in
\* the list.
C29_ShortAfterLong ==
    (last.op = "run" /\ last.calls = 2) =>
        LET c0 == tick(last.pre_positions, last.pre_cash, last.price).cash
            long == RLt(sp.min_cash, c0)
            c1 == IF long THEN RSub(c0, RMul(c0, dp.investment_pct)) ELSE c0
            short == RLt(sp.min_cash, c1)
            new == OpenedOn(positions, i - 1)
        IN  /\ ({p \in new : p.is_long} # {}) <=> long
            /\ ({p \in new : ~p.is_long} # {}) <=> short
            /\ Cardinality(new) = (IF long THEN 1 ELSE 0) + (IF short THEN 1 ELSE 0)
            /\ \A p \in new :
                   p.initial_margin = RMul(IF p.is_long THEN c0 ELSE c1, dp.investment_pct)
            /\ \A p, q \in new : (p.is_long /\ ~q.is_long) => p.id < q.id
            /\ cash = IF short THEN RSub(c1, RMul(c1, dp.investment_pct)) ELSE c1

\* C29 witness: a tick has opened a long and, with a smaller margin, a short.
C29_Witness ==
    /\ last.op = "run" /\ last.calls = 2
    /\ \E p, q \in OpenedOn(positions, i - 1) :
           p.is_long /\ ~q.is_long /\ RLt(q.initial_margin, p.initial_margin)

\* Tick t of run is one on which the signals are inspected.
Inspected(t) == t % (sp.trade_cooldown + 1) = 0

\* C30: the cooldown is reset on every tick that finds it 0, whatever the signals
\* and whatever open_position did, so it depends on the tick index alone: the
\* signals are inspected exactly on the ticks i with i mod (trade_cooldown + 1)
\* = 0; there open_position is called once per signal set and at most 2 positions
\* are opened; on every other tick a signal is dropped: nothing is called or
\* opened, then or later, for it.
C30_InspectedTicks ==
    /\ cooldown = (sp.trade_cooldown + 1 - (i % (sp.trade_cooldown + 1))) % (sp.trade_cooldown + 1)
    /\ \A k \in DOMAIN callTicks : Inspected(callTicks[k])
    /\ \A id \in DOMAIN openTick : Inspected(openTick[id])
    /\ last.op = "run" =>
           /\ last.calls = IF Inspected(i - 1)
                           THEN (IF last.buy THEN 1 ELSE 0) + (IF last.sell THEN 1 ELSE 0)
                           ELSE 0
           /\ (last.calls > 0) <=> (callTicks # <<>> /\ callTicks[Len(callTicks)] = i - 1)
           /\ Cardinality(OpenedOn(positions, i - 1)) <= last.calls
           /\ Cardinality(OpenedOn(positions, i - 1)) <= 2

\* C30 witness: under a positive cooldown the first tick found no signal and
\* reset the cooldown all the same, and a later tick's buy signal is dropped.
C30_Witness ==
    /\ sp.trade_cooldown > 0
    /\ last.op = "run"
    /\ last.buy /\ last.calls = 0
    /\ callTicks = <<>>
    /\ cooldown < sp.trade_cooldown

(***************************************************************************)
(* The accounts of the Portfolio of dayTrading.py.                         *)
(***************************************************************************)
\* What the closed positions of gone returned over their margins.
RECURSIVE SumProfit(_)
SumProfit(gone) ==
    IF gone = <<>> THEN Zero
    ELSE RAdd(RSub(Head(gone).value, Head(gone).position.initial_margin), SumProfit(Tail(gone)))

\* C31: in every state of a Portfolio, cash + the margins of the open positions is
\* initial_cash + the sum over the closed positions of (close value - margin); an
\* open_position, accepted or not, leaves cash + open margins as it was, and a tick
\* changes it by exactly the profit or loss of the positions it closed.
C31_PortfolioAccounting ==
    /\ TotalValue(cash, positions) = RAdd(sp.initial_cash, SumProfit(closed))
    /\ last.op = "open_position" =>
           TotalValue(cash, positions) = TotalValue(last.pre_cash, last.pre_positions)
    /\ last.op = "tick" =>
           TotalValue(cash, positions) =
               RAdd(TotalValue(last.pre_cash, last.pre_positions), SumProfit(JustClosed))

\* C31 witness: open_position has been accepted, with a positive margin, after a
\* tick closed a position at a loss.
C31_Witness ==
    /\ last.op = "open_position"
    /\ Len(positions) = Len(last.pre_positions) + 1
    /\ RLt(Zero, positions[Len(positions)].initial_margin)
    /\ \E c \in Range(closed) : RLt(c.value, c.position.initial_margin)

(***************************************************************************)
(* The signals of the indicators of dayTrading.                            *)
(***************************************************************************)
\* C32: MinMax gives no true signal: the rolling window of each position ends at
\* and includes that position, so where the rolling minimum and maximum are
\* defined the close is not under the one and not over the other, and buy and sell
\* are false at every position, for every series and every window >= 1; a
\* Simulation run on MinMax opens no position.
C32_MinMaxNeverSignals ==
    (indicators.kind = "MinMax" /\ last.op # "none") =>
        /\ \A k \in 1 .. Len(data) :
               /\ LET min == rolling_min(data, indicators.buy_window)[k]
                  IN  min = NaN \/ RLe(min, data[k])
               /\ LET max == rolling_max(data, indicators.sell_window)[k]
                  IN  max = NaN \/ RLe(data[k], max)
               /\ ~signals[k].buy
               /\ ~signals[k].sell
        /\ opened = 0
        /\ positions = <<>>
        /\ cash = sp.initial_cash

\* C32 witness: a run on MinMax has returned over a series whose last close is
\* under every close of its full buy window before it and whose close before
\* that is over every close of its full sell window before it.
C32_Witness ==
    /\ indicators.kind = "MinMax"
    /\ last.op = "return"
    /\ indicators.buy_window >= 2
    /\ indicators.sell_window >= 2
    /\ Len(data) > indicators.buy_window
    /\ Len(data) > indicators.sell_window
    /\ \A k \in 1 .. Len(data) - 1 : RLt(data[Len(data)], data[k])
    /\ \A k \in 1 .. Len(data) - 2 : RLt(data[k], data[Len(data) - 1])

\* s is the exponential moving average of x over span: s[0] = x[0] and
\* s[i] = alpha * x[i] + (1 - alpha) * s[i - 1] with alpha = 2 / (span + 1).
IsEma(s, x, span) ==
    /\ Len(s) = Len(x)
    /\ \A k \in 1 .. Len(x) :
           s[k] = IF k = 1 THEN x[1]
                  ELSE RAdd(RMul(Rat(2, span + 1), x[k]),
                            RMul(RSub(One, Rat(2, span + 1)), s[k - 1]))

\* C33: for MACD, buy and sell are never both true at one index and both are false
\* wherever macd = signal, which is so at index 0, where both are 0; buy is
\* macd > signal and sell is macd < signal, macd being the short EMA less the long
\* EMA and signal the EMA of macd, each EMA following ema[0] = price[0],
\* ema[i] = alpha * price[i] + (1 - alpha) * ema[i - 1] with alpha = 2 / (span + 1).
C33_MacdSignals ==
    (indicators.kind = "MACD" /\ last.op # "none") =>
        LET short_ema == ewm_mean(data, indicators.short_window)
            long_ema == ewm_mean(data, indicators.long_window)
            macd == [k \in 1 .. Len(data) |-> RSub(short_ema[k], long_ema[k])]
            signal == ewm_mean(macd, indicators.signal_window)
        IN  /\ IsEma(short_ema, data, indicators.short_window)
            /\ IsEma(long_ema, data, indicators.long_window)
            /\ IsEma(signal, macd, indicators.signal_window)
            /\ Len(signals) = Len(data)
            /\ \A k \in 1 .. Len(data) :
                   /\ ~(signals[k].buy /\ signals[k].sell)
                   /\ signals[k].buy <=> RLt(signal[k], macd[k])
                   /\ signals[k].sell <=> RLt(macd[k], signal[k])
                   /\ macd[k] = signal[k] => ~signals[k].buy /\ ~signals[k].sell
                   /\ k = 1 => macd[k] = Zero /\ signal[k] = Zero
                               /\ ~signals[k].buy /\ ~signals[k].sell

\* C33 witness: MACD has been computed over a series on which it gives a buy at
\* one index, a sell at another and neither at a third index after the first.
C33_Witness ==
    /\ indicators.kind = "MACD"
    /\ last.op # "none"
    /\ \E k \in DOMAIN signals : signals[k].buy
    /\ \E k \in DOMAIN signals : signals[k].sell
    /\ \E k \in DOMAIN signals : k > 1 /\ ~signals[k].buy /\ ~signals[k].sell

(***************************************************************************)
(* The sign of cash in the Portfolio of dayTrading.py.                     *)
(***************************************************************************)
\* The fraction of its open price by which the price moved against position p.
Adverse(p, price) ==
    RMul(RDiv(RSub(price, p.open_price), p.open_price), Float(IF p.is_long THEN -1 ELSE 1))

\* The closed position c lost no more than its margin: leverage * (adverse move) <= 1.
WithinMargin(c) == RLe(RMul(Float(sp.leverage), Adverse(c.position, c.price)), One)

\* open_position has just been called and has appended a position.
Accepted == last.op = "open_position" /\ Len(positions) = Len(last.pre_positions) + 1

\* The parts of C34 that hold: cash is >= 0 while every close so far was within
\* the margin; tick adds each close value to cash as it is; an accepted
\* open_position on cash >= 0 leaves cash >= 0.
CashSign ==
    /\ (\A c \in Range(closed) : WithinMargin(c)) => RLe(Zero, cash)
    /\ last.op = "tick" => cash = RAdd(last.pre_cash, SumValues(JustClosed))
    /\ (Accepted /\ RLe(Zero, last.pre_cash)) => RLe(Zero, cash)

\* C34 as stated: with the above, every close whose adverse move exceeds
\* 1 / leverage returns a negative value.
C34_CashNonNegativeWithinMargin ==
    /\ CashSign
    /\ \A c \in Range(closed) : ~WithinMargin(c) => RLt(c.value, Zero)

\* C34 amended: a close whose adverse move exceeds 1 / leverage returns a negative
\* value when the position has a positive margin, and 0 when its margin is 0
\* (investment_pct = 0).
C34_CashSign ==
    /\ CashSign
    /\ \A c \in Range(closed) :
           ~WithinMargin(c) =>
               IF RLt(Zero, c.position.initial_margin) THEN RLt(c.value, Zero)
               ELSE c.value = Zero /\ c.position.initial_margin = Zero

\* C34 witness: a tick has made cash negative by closing a position beyond its
\* margin, after a position had been closed at a loss within its margin.
C34_Witness ==
    /\ last.op = "tick"
    /\ RLt(cash, Zero)
    /\ RLe(Zero, last.pre_cash)
    /\ \E c \in Range(JustClosed) : ~WithinMargin(c)
    /\ \E c \in Range(closed) : WithinMargin(c) /\ RLt(c.value, c.position.initial_margin)

(***************************************************************************)
(* The cooldowns and the accounts of the Portfolio of strategy_tester.py.  *)
(***************************************************************************)
\* The indexes of the points of ps are at least gap apart.
Apart(ps, gap) == \A a, b \in DOMAIN ps : a < b => ps[b] - ps[a] >= gap

\* C35: in StrategyTester.simulate two successful buys are at least BUY_COOLDOWN
\* ticks apart and two successful sells at least SELL_COOLDOWN ticks apart; an
\* iteration without a successful buy leaves buy_cooldown one less than it was
\* (a refusal does not restart it), and likewise for sell; a successful buy sets
\* buy_cooldown and leaves sell_cooldown to the sell, and conversely; an
\* iteration in which neither succeeds changes cash by the monthly deposit only
\* and no other field but the cooldowns and the months.
C35_Cooldowns ==
    /\ [](pc \in {"loop", "performance", "returned"} =>
            /\ Apart(simulator.buy_points, BUY_COOLDOWN)
            /\ Apart(simulator.sell_points, SELL_COOLDOWN))
    /\ [][(pc = "loop" /\ i' = i + 1) =>
             /\ portfolio'.buy_cooldown =
                    IF portfolio'.buys = portfolio.buys THEN portfolio.buy_cooldown - 1
                    ELSE BUY_COOLDOWN
             /\ portfolio'.sell_cooldown =
                    IF portfolio'.sells = portfolio.sells THEN portfolio.sell_cooldown - 1
                    ELSE SELL_COOLDOWN
             /\ portfolio'.buys \in {portfolio.buys, portfolio.buys + 1}
             /\ portfolio'.sells \in {portfolio.sells, portfolio.sells + 1}
             /\ (portfolio'.buys = portfolio.buys /\ portfolio'.sells = portfolio.sells) =>
                    /\ simulator' = simulator
                    /\ portfolio' =
                           [portfolio EXCEPT !.buy_cooldown = @ - 1, !.sell_cooldown = @ - 1,
                                             !.cash = portfolio'.cash,
                                             !.months = portfolio'.months]
                    /\ portfolio'.cash \in {portfolio.cash,
                                            RAdd(portfolio.cash, portfolio.monthly_deposit)}]_vars

\* C35 witness: a buy and a sell have succeeded on the same tick, a second buy and
\* a second sell later, with refused attempts on the ticks between (on a flat
\* series the price is at both bands on every tick).
C35_Witness ==
    /\ pc = "performance"
    /\ Flat(data)
    /\ Len(simulator.buy_points) >= 2
    /\ Len(simulator.sell_points) >= 2
    /\ simulator.buy_points[1] = simulator.sell_points[1]
    /\ simulator.buy_points[2] = simulator.buy_points[1] + BUY_COOLDOWN
    /\ simulator.sell_points[2] = simulator.sell_points[1] + SELL_COOLDOWN

\* cash + stock * price of a portfolio.
Worth(pf, price) == RAdd(pf.cash, RMul(pf.stock, price))

PointsMatchRun(r) ==
    /\ Len(r[2].buy_points) = r[3].buys
    /\ Len(r[2].sell_points) = r[3].sells
    /\ Apart(r[2].buy_points, 1)
    /\ Apart(r[2].sell_points, 1)

\* C37: every result tuple (performance, tester, portfolio), of simulate_p and of
\* validate, has len(tester.buy_points) = portfolio.buys and
\* len(tester.sell_points) = portfolio.sells, with the points in increasing order.
C37_PointsMatchRun ==
    \A r \in Range(results) \cup Range(validate_results) : PointsMatchRun(r)

\* The part of C37 that holds: the tuple simulate_p returns, whose StrategyTester
\* is new, has the points of its run, until validate runs that tester again.
PointsMatchFreshRun == validate_results = <<>> => \A r \in Range(results) : PointsMatchRun(r)

====
